---------------------------- MODULE Spec2Model ----------------------------
(***************************************************************************)
(* A model of the semantic-model resolution core of the repository:        *)
(*   - relationship_creation.py   (relationship inference and its CLI)     *)
(*   - semantic_view_sql_utils.py (identifier mapping and SQL rewriting)   *)
(*   - semantic_view_get.py / semantic_view_set.py (cached mappings)       *)
(*                                                                         *)
(* Identifiers are sequences of one-character strings, so that Python's    *)
(* str.lower() / str.upper() are computed character by character.          *)
(***************************************************************************)
EXTENDS Integers, Sequences, FiniteSets, TLC

\* An optional value (a missing key, or Python's None) is the empty tuple
\* and a present value x is the one-element tuple <<x>>.
None == <<>>
Some(x) == <<x>>
IsNone(o) == o = <<>>
Val(o) == o[1]

(***************************************************************************)
(* str.lower(), str.upper()                                                *)
(***************************************************************************)
LowerLetters ==
    <<"a","b","c","d","e","f","g","h","i","j","k","l","m",
      "n","o","p","q","r","s","t","u","v","w","x","y","z">>
UpperLetters ==
    <<"A","B","C","D","E","F","G","H","I","J","K","L","M",
      "N","O","P","Q","R","S","T","U","V","W","X","Y","Z">>

LowerChar(c) ==
    IF \E i \in DOMAIN UpperLetters : UpperLetters[i] = c
    THEN LowerLetters[CHOOSE i \in DOMAIN UpperLetters : UpperLetters[i] = c]
    ELSE c

UpperChar(c) ==
    IF \E i \in DOMAIN LowerLetters : LowerLetters[i] = c
    THEN UpperLetters[CHOOSE i \in DOMAIN LowerLetters : LowerLetters[i] = c]
    ELSE c

Lower(s) == [i \in DOMAIN s |-> LowerChar(s[i])]
Upper(s) == [i \in DOMAIN s |-> UpperChar(s[i])]

(***************************************************************************)
(* Generic helpers                                                         *)
(***************************************************************************)
SeqsUpTo(S, n) == UNION {[1..k -> S] : k \in 0..n}
SeqsFromTo(S, m, n) == UNION {[1..k -> S] : k \in m..n}
Range(s) == {s[i] : i \in DOMAIN s}
Min(a, b) == IF a <= b THEN a ELSE b

(***************************************************************************)
(* relationship_creation.py                                                *)
(***************************************************************************)
\* Bound: longest join-column list handed to infer_relationship_type.
MaxJoinCols == 2

\* Column names used in keys and join lists: "a" and "A" differ only in
\* case, "b" is another column.
ColNames == {<<"a">>, <<"A">>, <<"b">>}

\* Column lists a primary key or a unique key may declare.
KeyLists == {<<>>, <<<<"A">>>>, <<<<"a">>, <<"b">>>>}

\* table["primary_key"]: absent/None, or its "columns" list.
PrimaryKeys == {None} \cup {Some(k) : k \in KeyLists}
\* table["unique_keys"]: absent/None, an empty list, or a list of one key.
UniqueKeyLists == {None, Some(<<>>)} \cup {Some(<<k>>) : k \in KeyLists}

LeftName == <<"C","U","S","T">>
RightName == <<"O","R","D">>

TableDicts(nm) ==
    [name : {nm}, primary_key : PrimaryKeys, unique_keys : UniqueKeyLists]

JoinLists == SeqsUpTo(ColNames, MaxJoinCols)

\* Mutant: the primary key columns are taken as written, not lowered.
get_primary_key_columns_cased(table) ==
    IF ~IsNone(table.primary_key) /\ Val(table.primary_key) # <<>>
    THEN Range(Val(table.primary_key))
    ELSE {}

get_primary_key_columns(table) ==
    IF ~IsNone(table.primary_key) /\ Val(table.primary_key) # <<>>
    THEN {Lower(col) : col \in Range(Val(table.primary_key))}
    ELSE {}

\* Mutant: the unique keys are not read at all.
get_unique_key_columns_ignored(table) == <<>>

get_unique_key_columns(table) ==
    IF ~IsNone(table.unique_keys) /\ Val(table.unique_keys) # <<>>
    THEN LET nonEmpty ==
                 SelectSeq(Val(table.unique_keys), LAMBDA uk : uk # <<>>)
         IN  [i \in DOMAIN nonEmpty |->
                 {Lower(col) : col \in Range(nonEmpty[i])}]
    ELSE <<>>

get_all_constraint_sets(table) ==
    LET pk_columns == get_primary_key_columns(table)
    IN  (IF pk_columns # {} THEN <<pk_columns>> ELSE <<>>)
            \o get_unique_key_columns(table)

\* Mutant: issuperset where the code says issubset.
has_constraint_on_columns_superset(constraint_sets, join_columns) ==
    \E i \in DOMAIN constraint_sets : join_columns \subseteq constraint_sets[i]

has_constraint_on_columns(constraint_sets, join_columns) ==
    \E i \in DOMAIN constraint_sets : constraint_sets[i] \subseteq join_columns

\* zip(left_columns, right_columns) as {"left_column": .., "right_column": ..}
ZipPairs(ls, rs) ==
    [i \in 1..Min(Len(ls), Len(rs)) |->
        [left_column |-> ls[i], right_column |-> rs[i]]]

Relationship(lname, rname, rtype, pairs) ==
    [name |-> <<lname, "_TO_", rname>>,
     left_table |-> lname,
     right_table |-> rname,
     join_type |-> "inner",
     relationship_type |-> rtype,
     relationship_columns |-> pairs]

\* Mutant: case 3 emits the caller's order instead of swapping.
infer_relationship_type_noswap(left_table, right_table, left_columns, right_columns) ==
    LET left_has_constraint ==
            has_constraint_on_columns(get_all_constraint_sets(left_table),
                {Lower(col) : col \in Range(left_columns)})
        right_has_constraint ==
            has_constraint_on_columns(get_all_constraint_sets(right_table),
                {Lower(col) : col \in Range(right_columns)})
        pairs == ZipPairs(left_columns, right_columns)
    IN  IF left_has_constraint /\ right_has_constraint
        THEN [rel_type |-> "one_to_one",
              result |-> Relationship(left_table.name, right_table.name,
                                      "one_to_one", pairs)]
        ELSE IF right_has_constraint
        THEN [rel_type |-> "many_to_one",
              result |-> Relationship(left_table.name, right_table.name,
                                      "many_to_one", pairs)]
        ELSE IF left_has_constraint
        THEN [rel_type |-> "many_to_one (swapped)",
              result |-> Relationship(left_table.name, right_table.name,
                                      "many_to_one", pairs)]
        ELSE [rel_type |-> "many_to_many (rejected)",
              result |-> [error |-> "many_to_many",
                          left_table |-> left_table.name,
                          right_table |-> right_table.name,
                          left_columns |-> left_columns,
                          right_columns |-> right_columns]]

infer_relationship_type(left_table, right_table, left_columns, right_columns) ==
    LET left_constraint_sets == get_all_constraint_sets(left_table)
        right_constraint_sets == get_all_constraint_sets(right_table)
        left_join_cols == {Lower(col) : col \in Range(left_columns)}
        right_join_cols == {Lower(col) : col \in Range(right_columns)}
        left_has_constraint ==
            has_constraint_on_columns(left_constraint_sets, left_join_cols)
        right_has_constraint ==
            has_constraint_on_columns(right_constraint_sets, right_join_cols)
        left_table_name == left_table.name
        right_table_name == right_table.name
    IN  IF left_has_constraint /\ right_has_constraint
        THEN [rel_type |-> "one_to_one",
              result |-> Relationship(left_table_name, right_table_name,
                            "one_to_one",
                            ZipPairs(left_columns, right_columns))]
        ELSE IF right_has_constraint
        THEN [rel_type |-> "many_to_one",
              result |-> Relationship(left_table_name, right_table_name,
                            "many_to_one",
                            ZipPairs(left_columns, right_columns))]
        ELSE IF left_has_constraint
        THEN [rel_type |-> "many_to_one (swapped)",
              result |-> Relationship(right_table_name, left_table_name,
                            "many_to_one",
                            ZipPairs(right_columns, left_columns))]
        ELSE [rel_type |-> "many_to_many (rejected)",
              result |-> [error |-> "many_to_many",
                          left_table |-> left_table_name,
                          right_table |-> right_table_name,
                          left_columns |-> left_columns,
                          right_columns |-> right_columns]]

(***************************************************************************)
(* semantic_view_sql_utils.py: Python dicts and strings                    *)
(***************************************************************************)
\* A dict is the sequence of its items in insertion order.
Item(k, v) == [k |-> k, v |-> v]
DictKeys(d) == {d[i].k : i \in DOMAIN d}
DictHas(d, k) == \E i \in DOMAIN d : d[i].k = k
DictGet(d, k) == d[CHOOSE i \in DOMAIN d : d[i].k = k].v
\* d[k] = v: a new key goes last, an existing key keeps its place.
DictPut(d, k, v) ==
    IF DictHas(d, k)
    THEN [i \in DOMAIN d |-> IF d[i].k = k THEN Item(k, v) ELSE d[i]]
    ELSE Append(d, Item(k, v))

RECURSIVE DictFromItems(_)
DictFromItems(items) ==
    IF items = <<>> THEN <<>>
    ELSE LET n == Len(items)
         IN  DictPut(DictFromItems(SubSeq(items, 1, n - 1)),
                     items[n].k, items[n].v)

RECURSIVE Concat(_)
Concat(seqs) ==
    IF seqs = <<>> THEN <<>> ELSE Head(seqs) \o Concat(Tail(seqs))

Dot == "."

\* str.split(".")
RECURSIVE SplitDots(_)
SplitDots(s) ==
    IF \A i \in DOMAIN s : s[i] # Dot THEN <<s>>
    ELSE LET i == CHOOSE j \in DOMAIN s :
                      s[j] = Dot /\ \A h \in 1..(j - 1) : s[h] # Dot
         IN  <<SubSeq(s, 1, i - 1)>> \o SplitDots(SubSeq(s, i + 1, Len(s)))

\* f"{database}.{schema}.{table_name}"
Fqn(database, schema, table_name) ==
    database \o <<Dot>> \o schema \o <<Dot>> \o table_name

(***************************************************************************)
(* Table and column mapping builders                                       *)
(***************************************************************************)
\* base_table is complete when database, schema and table are all non-empty.
HasPhysicalReference(table) ==
    /\ table.name # <<>>
    /\ ~IsNone(table.base_table)
    /\ Val(table.base_table).database # <<>>
    /\ Val(table.base_table).schema # <<>>
    /\ Val(table.base_table).table # <<>>

PhysicalFqn(table) ==
    Fqn(Val(table.base_table).database, Val(table.base_table).schema,
        Val(table.base_table).table)

build_logical_to_physical_mapping(semantic_model_data) ==
    LET tables == SelectSeq(semantic_model_data.tables, HasPhysicalReference)
    IN  DictFromItems([i \in DOMAIN tables |->
                          Item(tables[i].name, PhysicalFqn(tables[i]))])

build_physical_to_logical_mapping(semantic_model_data) ==
    LET tables == SelectSeq(semantic_model_data.tables, HasPhysicalReference)
    IN  DictFromItems([i \in DOMAIN tables |->
                          Item(PhysicalFqn(tables[i]), tables[i].name)])

\* The columns of the five sections that carry both a name and an expr.
SectionColumns(table) ==
    SelectSeq(table.dimensions \o table.time_dimensions \o table.measures
                  \o table.facts \o table.metrics,
              LAMBDA col : col.name # <<>> /\ col.expr # <<>>)

build_logical_to_physical_column_mapping(semantic_model_data) ==
    LET tables == SelectSeq(semantic_model_data.tables,
                     LAMBDA t : t.name # <<>> /\ SectionColumns(t) # <<>>)
    IN  DictFromItems([i \in DOMAIN tables |->
           Item(tables[i].name,
                LET cols == SectionColumns(tables[i])
                IN  DictFromItems([j \in DOMAIN cols |->
                                      Item(cols[j].name, cols[j].expr)]))])

build_physical_to_logical_column_mapping(semantic_model_data) ==
    LET tables == SelectSeq(semantic_model_data.tables,
                     LAMBDA t : t.name # <<>> /\ SectionColumns(t) # <<>>)
    IN  DictFromItems([i \in DOMAIN tables |->
           Item(tables[i].name,
                LET cols == SectionColumns(tables[i])
                IN  DictFromItems([j \in DOMAIN cols |->
                                      Item(cols[j].expr, cols[j].name)]))])

\* The first of key, key.lower(), key.upper() found in the mapping.
case_insensitive_lookup(key, mapping) ==
    IF DictHas(mapping, key) THEN Some(DictGet(mapping, key))
    ELSE IF DictHas(mapping, Lower(key)) THEN Some(DictGet(mapping, Lower(key)))
    ELSE IF DictHas(mapping, Upper(key)) THEN Some(DictGet(mapping, Upper(key)))
    ELSE None

case_insensitive_column_lookup(column_name, columns_dict) ==
    IF DictHas(columns_dict, column_name)
    THEN Some(DictGet(columns_dict, column_name))
    ELSE IF DictHas(columns_dict, Lower(column_name))
    THEN Some(DictGet(columns_dict, Lower(column_name)))
    ELSE IF DictHas(columns_dict, Upper(column_name))
    THEN Some(DictGet(columns_dict, Upper(column_name)))
    ELSE None

(***************************************************************************)
(* The parsed statement (sqlglot), as far as the rewriter reads it         *)
(*                                                                         *)
(*   statement = [ctes : Seq([alias, select]), select]                     *)
(*   select    = [from : Seq(Table) of length 0 or 1, joins : Seq(Table),  *)
(*                expressions : Seq(Column)]                               *)
(*   Table     = [catalog, db, this, alias]   (<<>> for an absent part)    *)
(*   Column    = [table, this]                (<<>> for no qualifier)      *)
(*                                                                         *)
(* parse_one and .sql() are the parser's: text and tree stand for each     *)
(* other, so a pass reads and returns the tree.                            *)
(***************************************************************************)
TableNode(catalog, db, this, alias) ==
    [catalog |-> catalog, db |-> db, this |-> this, alias |-> alias]
ColumnNode(table, this) == [table |-> table, this |-> this]

SelectTables(select) == select.from \o select.joins

\* parsed.find_all(exp.Table): breadth first, so the tables of the outer
\* SELECT come before those inside the CTE bodies.
AllTables(parsed) ==
    SelectTables(parsed.select)
        \o Concat([i \in DOMAIN parsed.ctes |->
                      SelectTables(parsed.ctes[i].select)])

\* Mutant: no CTE alias is collected.
collect_cte_names_none(parsed) == {}

collect_cte_names(parsed) ==
    {parsed.ctes[i].alias : i \in {j \in DOMAIN parsed.ctes :
                                      parsed.ctes[j].alias # <<>>}}

is_already_qualified(table_node) ==
    table_node.catalog # <<>> /\ table_node.db # <<>>

build_fqn_from_table_node(table_node) ==
    IF table_node.catalog # <<>> /\ table_node.db # <<>>
       /\ table_node.this # <<>>
    THEN Fqn(table_node.catalog, table_node.db, table_node.this)
    ELSE IF table_node.db # <<>> /\ table_node.this # <<>>
    THEN table_node.db \o <<Dot>> \o table_node.this
    ELSE IF table_node.this # <<>>
    THEN table_node.this
    ELSE <<>>

\* Apply f to every Table node of the statement.
MapTables(parsed, f(_)) ==
    LET InSelect(sel) ==
            [sel EXCEPT !.from = [i \in DOMAIN sel.from |-> f(sel.from[i])],
                        !.joins = [i \in DOMAIN sel.joins |-> f(sel.joins[i])]]
    IN  [ctes |-> [i \in DOMAIN parsed.ctes |->
                      [parsed.ctes[i] EXCEPT
                          !.select = InSelect(parsed.ctes[i].select)]],
         select |-> InSelect(parsed.select)]

\* Apply g(column, enclosing select) to every Column node.
MapColumns(parsed, g(_, _)) ==
    LET InSelect(sel) ==
            [sel EXCEPT !.expressions =
                [i \in DOMAIN sel.expressions |-> g(sel.expressions[i], sel)]]
    IN  [ctes |-> [i \in DOMAIN parsed.ctes |->
                      [parsed.ctes[i] EXCEPT
                          !.select = InSelect(parsed.ctes[i].select)]],
         select |-> InSelect(parsed.select)]

(***************************************************************************)
(* Table name resolution                                                   *)
(***************************************************************************)
L2PTableNode(table_node, cte_names, mapping) ==
    IF table_node.this = <<>> \/ table_node.this \in cte_names
    THEN table_node
    ELSE IF is_already_qualified(table_node)
    THEN table_node
    ELSE LET physical_fqn == case_insensitive_lookup(table_node.this, mapping)
         IN  IF IsNone(physical_fqn) \/ Val(physical_fqn) = <<>>
             THEN table_node
             ELSE LET parts == SplitDots(Val(physical_fqn))
                  IN  IF Len(parts) = 3
                      THEN [table_node EXCEPT !.catalog = parts[1],
                                              !.db = parts[2],
                                              !.this = parts[3]]
                      ELSE table_node

resolve_logical_to_physical_table_names(sql, mapping) ==
    LET cte_names == collect_cte_names(sql)
        F(table_node) == L2PTableNode(table_node, cte_names, mapping)
    IN  MapTables(sql, F)

P2LTableNode(table_node, cte_names, reverse_mapping) ==
    IF table_node.this = <<>> \/ table_node.this \in cte_names
    THEN table_node
    ELSE LET fqn == build_fqn_from_table_node(table_node)
             logical_name == case_insensitive_lookup(fqn, reverse_mapping)
         IN  IF fqn = <<>> \/ IsNone(logical_name) \/ Val(logical_name) = <<>>
             THEN table_node
             ELSE [table_node EXCEPT !.catalog = <<>>, !.db = <<>>,
                                     !.this = Val(logical_name)]

resolve_physical_to_logical_table_names(sql, reverse_mapping) ==
    LET cte_names == collect_cte_names(sql)
        F(table_node) == P2LTableNode(table_node, cte_names, reverse_mapping)
    IN  MapTables(sql, F)

(***************************************************************************)
(* Column name resolution                                                  *)
(***************************************************************************)
\* For a logical table and its physical FQN, in the order the loop writes
\* them: reverse[physical], reverse[logical], reverse[parts[2]].
TableLookupItems(logical, physical) ==
    LET parts == SplitDots(physical)
    IN  <<Item(physical, logical), Item(logical, logical)>>
            \o (IF Len(parts) = 3 THEN <<Item(parts[3], logical)>> ELSE <<>>)

\* reverse_table_mapping, built from the logical -> physical table mapping.
ReverseTableMapping(table_mapping) ==
    DictFromItems(Concat([i \in DOMAIN table_mapping |->
        TableLookupItems(table_mapping[i].k, table_mapping[i].v)]))

\* logical_table_mapping, built from the physical -> logical table mapping.
LogicalTableMapping(table_mapping) ==
    DictFromItems(Concat([i \in DOMAIN table_mapping |->
        TableLookupItems(table_mapping[i].v, table_mapping[i].k)]))

AliasToTable(parsed, cte_names) ==
    LET aliased == SelectSeq(AllTables(parsed),
                       LAMBDA t : /\ t.this # <<>>
                                  /\ t.this \notin cte_names
                                  /\ t.alias # <<>>)
    IN  DictFromItems([i \in DOMAIN aliased |->
                          Item(aliased[i].alias, aliased[i].this)])

\* An unqualified column belongs to a CTE when the FROM table of the
\* nearest enclosing SELECT is a CTE; a qualified one when its qualifier is.
is_referencing_cte(column_node, select, cte_names) ==
    IF column_node.table = <<>>
    THEN select.from # <<>> /\ select.from[1].this \in cte_names
    ELSE column_node.table \in cte_names

\* The logical table a column belongs to (None when there is none).
OwningTable(column_node, alias_to_table, table_lookup, column_mapping) ==
    IF column_node.table # <<>>
    THEN LET actual_table ==
                 IF DictHas(alias_to_table, column_node.table)
                 THEN DictGet(alias_to_table, column_node.table)
                 ELSE column_node.table
             same == {i \in DOMAIN table_lookup :
                         Upper(table_lookup[i].k) = Upper(actual_table)}
         IN  IF DictHas(table_lookup, actual_table)
                /\ DictGet(table_lookup, actual_table) # <<>>
             THEN Some(DictGet(table_lookup, actual_table))
             ELSE IF same # {}
             THEN Some(table_lookup[CHOOSE i \in same :
                                       \A j \in same : i <= j].v)
             ELSE None
    ELSE LET having == {i \in DOMAIN column_mapping :
                 ~IsNone(case_insensitive_column_lookup(column_node.this,
                                                        column_mapping[i].v))}
         IN  IF having # {}
             THEN Some(column_mapping[CHOOSE i \in having :
                                         \A j \in having : i <= j].k)
             ELSE None

Letters == Range(LowerLetters) \cup Range(UpperLetters)
IsIdentifier(s) == s # <<>> /\ \A i \in DOMAIN s : s[i] \in Letters

\* sqlglot.parse_one(physical_expr, into=exp.Column): a column reference
\* (name, or qualifier.name) parses into a Column; on any other text the
\* parser raises (None).
ParseColumn(physical_expr) ==
    LET parts == SplitDots(physical_expr)
    IN  IF Len(parts) = 1 /\ IsIdentifier(parts[1])
        THEN Some(ColumnNode(<<>>, parts[1]))
        ELSE IF Len(parts) = 2 /\ IsIdentifier(parts[1])
                /\ IsIdentifier(parts[2])
        THEN Some(ColumnNode(parts[1], parts[2]))
        ELSE None

L2PColumnNode(column_node, select, cte_names, alias_to_table, table_lookup, column_mapping) ==
    IF column_node.this = <<>>
       \/ is_referencing_cte(column_node, select, cte_names)
    THEN column_node
    ELSE IF column_node.table # <<>> /\ column_node.table \in cte_names
    THEN column_node
    ELSE LET logical_table == OwningTable(column_node, alias_to_table,
                                          table_lookup, column_mapping)
         IN  IF IsNone(logical_table) \/ Val(logical_table) = <<>>
                \/ ~DictHas(column_mapping, Val(logical_table))
             THEN column_node
             ELSE LET physical_expr == case_insensitive_column_lookup(
                          column_node.this,
                          DictGet(column_mapping, Val(logical_table)))
                  IN  IF IsNone(physical_expr)
                         \/ IsNone(ParseColumn(Val(physical_expr)))
                      THEN column_node
                      ELSE Val(ParseColumn(Val(physical_expr)))

resolve_logical_to_physical_column_names(sql, table_mapping, column_mapping) ==
    LET cte_names == collect_cte_names(sql)
        reverse_table_mapping == ReverseTableMapping(table_mapping)
        alias_to_table == AliasToTable(sql, cte_names)
        G(column_node, select) ==
            L2PColumnNode(column_node, select, cte_names, alias_to_table,
                          reverse_table_mapping, column_mapping)
    IN  MapColumns(sql, G)

P2LColumnNode(column_node, select, cte_names, alias_to_table, table_lookup, column_mapping) ==
    IF column_node.this = <<>>
       \/ is_referencing_cte(column_node, select, cte_names)
    THEN column_node
    ELSE IF column_node.table # <<>> /\ column_node.table \in cte_names
    THEN column_node
    ELSE LET logical_table == OwningTable(column_node, alias_to_table,
                                          table_lookup, column_mapping)
         IN  IF IsNone(logical_table) \/ Val(logical_table) = <<>>
                \/ ~DictHas(column_mapping, Val(logical_table))
             THEN column_node
             ELSE LET logical_name == case_insensitive_column_lookup(
                          column_node.this,
                          DictGet(column_mapping, Val(logical_table)))
                  IN  IF IsNone(logical_name)
                      THEN column_node
                      ELSE ColumnNode(column_node.table, Val(logical_name))

resolve_physical_to_logical_column_names(sql, table_mapping, column_mapping) ==
    LET cte_names == collect_cte_names(sql)
        logical_table_mapping == LogicalTableMapping(table_mapping)
        alias_to_table == AliasToTable(sql, cte_names)
        G(column_node, select) ==
            P2LColumnNode(column_node, select, cte_names, alias_to_table,
                          logical_table_mapping, column_mapping)
    IN  MapColumns(sql, G)

(***************************************************************************)
(* The four passes inside their try/except, and the two translations       *)
(***************************************************************************)
\* Each resolve_* function wraps its body in try/except Exception and
\* returns its own argument when the body raises.
TryLogicalToPhysicalTables(sql, mapping, raises) ==
    IF raises THEN sql
    ELSE resolve_logical_to_physical_table_names(sql, mapping)

TryLogicalToPhysicalColumns(sql, table_mapping, column_mapping, raises) ==
    IF raises THEN sql
    ELSE resolve_logical_to_physical_column_names(sql, table_mapping,
                                                  column_mapping)

TryPhysicalToLogicalTables(sql, reverse_mapping, raises) ==
    IF raises THEN sql
    ELSE resolve_physical_to_logical_table_names(sql, reverse_mapping)

TryPhysicalToLogicalColumns(sql, table_mapping, column_mapping, raises) ==
    IF raises THEN sql
    ELSE resolve_physical_to_logical_column_names(sql, table_mapping,
                                                  column_mapping)

\* SemanticModelGetter._resolve_sql with the mappings it is given.
\* raises = [tables, columns]: which pass meets an exception.
ResolveSqlWith(sql, table_mapping, column_mapping, raises) ==
    IF table_mapping = <<>> THEN sql
    ELSE LET sql1 == TryLogicalToPhysicalTables(sql, table_mapping,
                                                raises.tables)
         IN  IF column_mapping # <<>>
             THEN TryLogicalToPhysicalColumns(sql1, table_mapping,
                                              column_mapping, raises.columns)
             ELSE sql1

\* SemanticModelSetter._translate_vqr_sql with the mappings it is given.
TranslateVqrSqlWith(sql, table_mapping, column_mapping, raises) ==
    IF table_mapping = <<>> THEN sql
    ELSE LET sql1 == TryPhysicalToLogicalTables(sql, table_mapping,
                                                raises.tables)
         IN  IF column_mapping # <<>>
             THEN TryPhysicalToLogicalColumns(sql1, table_mapping,
                                              column_mapping, raises.columns)
             ELSE sql1

\* The passes a translation runs, given its mappings.
PassesRun(table_mapping, column_mapping) ==
    [tables |-> table_mapping # <<>>,
     columns |-> table_mapping # <<>> /\ column_mapping # <<>>]

NoRaise == [tables |-> FALSE, columns |-> FALSE]

\* The passes that ran and raised.
Raised(raises, run) ==
    [tables |-> raises.tables /\ run.tables,
     columns |-> raises.columns /\ run.columns]

(***************************************************************************)
(* Documents and statements the rewriter is run on                         *)
(***************************************************************************)
\* Bound: JOINs in the outer SELECT.
MaxJoins == 1

ColumnEntry(nm, ex) == [name |-> nm, expr |-> ex]
BaseTable(d, sc, t) == Some([database |-> d, schema |-> sc, table |-> t])

SemanticTable(nm, base, dims) ==
    [name |-> nm, base_table |-> base, dimensions |-> dims,
     time_dimensions |-> <<>>, measures |-> <<>>, facts |-> <<>>,
     metrics |-> <<>>, filters |-> <<>>]

\* Logical table t on D.S.P: x -> m; x -> the expression m*n; or x and y
\* both -> m.
FirstTables ==
    {SemanticTable(<<"t">>, BaseTable(<<"D">>, <<"S">>, <<"P">>), dims) :
        dims \in {<<ColumnEntry(<<"x">>, <<"m">>)>>,
                  <<ColumnEntry(<<"x">>, <<"m", "*", "n">>)>>,
                  <<ColumnEntry(<<"x">>, <<"m">>),
                    ColumnEntry(<<"y">>, <<"m">>)>>}}

\* A second logical table, u, c, C or Ab, on D.S.Q, on the same D.S.P, or
\* with no schema; x -> n or y -> m.
SecondTables ==
    {SemanticTable(nm, base, dims) :
        nm \in {<<"u">>, <<"c">>, <<"C">>, <<"A", "b">>},
        base \in {BaseTable(<<"D">>, <<"S">>, <<"Q">>),
                  BaseTable(<<"D">>, <<"S">>, <<"P">>),
                  BaseTable(<<"D">>, <<>>, <<"Q">>)},
        dims \in {<<ColumnEntry(<<"x">>, <<"n">>)>>,
                  <<ColumnEntry(<<"y">>, <<"m">>)>>}}

SqlDocuments ==
    {[tables |-> <<t1, t2>>] : t1 \in FirstTables, t2 \in SecondTables}

Select(from, joins, expressions) ==
    [from |-> from, joins |-> joins, expressions |-> expressions]

\* WITH c AS (SELECT x FROM t)
CteC == [alias |-> <<"c">>,
         select |-> Select(<<TableNode(<<>>, <<>>, <<"t">>, <<>>)>>, <<>>,
                           <<ColumnNode(<<>>, <<"x">>)>>)]

FromNodes ==
    {TableNode(<<>>, <<>>, <<"t">>, <<>>),
     TableNode(<<>>, <<>>, <<"t">>, <<"a">>),
     TableNode(<<>>, <<>>, <<"u">>, <<>>),
     TableNode(<<>>, <<>>, <<"c">>, <<>>),
     TableNode(<<>>, <<>>, <<"a", "b">>, <<>>),
     TableNode(<<>>, <<>>, <<"P">>, <<>>),
     TableNode(<<"D">>, <<"S">>, <<"P">>, <<"a">>),
     TableNode(<<"D">>, <<"S">>, <<"Q">>, <<>>)}

JoinNodes ==
    {TableNode(<<>>, <<>>, <<"u">>, <<>>),
     TableNode(<<>>, <<>>, <<"c">>, <<>>)}

ColumnNodes ==
    {ColumnNode(q, nm) : q \in {<<>>, <<"t">>, <<"a">>, <<"c">>, <<"u">>},
                         nm \in {<<"x">>, <<"X">>, <<"y">>, <<"m">>}}

SqlStatements ==
    {[ctes |-> ctes, select |-> Select(<<from>>, joins, <<col>>)] :
        ctes \in {<<>>, <<CteC>>},
        from \in FromNodes,
        joins \in SeqsUpTo(JoinNodes, MaxJoins),
        col \in ColumnNodes}

(***************************************************************************)
(* semantic_view_set.py: the operations of SemanticModelSetter             *)
(*                                                                         *)
(* An operation returns Some(document) or, where the code raises           *)
(* ValueError, None.                                                       *)
(***************************************************************************)
SectionNames ==
    <<"dimensions", "time_dimensions", "measures", "facts", "metrics",
      "filters">>

\* The place of the first table of that name, 0 when there is none.
find_table(data, table_name) ==
    LET found == {i \in DOMAIN data.tables :
                     data.tables[i].name = table_name}
    IN  IF found = {} THEN 0
        ELSE CHOOSE i \in found : \A j \in found : i <= j

\* The first section, in the order of SectionNames, that holds a column of
\* that name (0 when none does).
find_column(table, column_name) ==
    LET holding == {s \in DOMAIN SectionNames :
                       \E i \in DOMAIN table[SectionNames[s]] :
                           table[SectionNames[s]][i].name = column_name}
    IN  IF holding = {} THEN 0
        ELSE CHOOSE s \in holding : \A r \in holding : s <= r

find_vqr_by_name(data, vqr_name) ==
    LET found == {i \in DOMAIN data.verified_queries :
                     data.verified_queries[i].name = vqr_name}
    IN  IF found = {} THEN 0
        ELSE CHOOSE i \in found : \A j \in found : i <= j

create_table(data, new) ==
    IF new.name = <<>> THEN None
    ELSE IF find_table(data, new.name) # 0 THEN None
    ELSE Some([data EXCEPT !.tables = Append(@, new)])

\* section_map.get(kind)
SectionOfKind(kind) ==
    CASE kind = "dimension" -> "dimensions"
      [] kind = "time_dimension" -> "time_dimensions"
      [] kind = "measure" -> "measures"
      [] kind = "fact" -> "facts"
      [] kind = "metric" -> "metrics"
      [] kind = "filter" -> "filters"
      [] OTHER -> ""

create_column(data, table_name, new) ==
    LET t == find_table(data, table_name)
        section_name == SectionOfKind(new.kind)
    IN  IF t = 0 THEN None
        ELSE IF new.name = <<>> THEN None
        ELSE IF new.kind = "" THEN None
        ELSE IF find_column(data.tables[t], new.name) # 0 THEN None
        ELSE IF section_name = "" THEN None
        ELSE Some([data EXCEPT !.tables[t][section_name] =
                      Append(@, [name |-> new.name, expr |-> new.expr])])

update_table(data, table_name, property, value) ==
    LET t == find_table(data, table_name)
    IN  IF t = 0 THEN None
        ELSE Some([data EXCEPT !.tables[t][property] = value])

update_column(data, table_name, column_name, property, value) ==
    LET t == find_table(data, table_name)
        s == IF t = 0 THEN 0 ELSE find_column(data.tables[t], column_name)
    IN  IF t = 0 \/ s = 0 THEN None
        ELSE LET section == data.tables[t][SectionNames[s]]
                 c == CHOOSE i \in DOMAIN section :
                          /\ section[i].name = column_name
                          /\ \A j \in 1..(i - 1) :
                                section[j].name # column_name
             IN  Some([data EXCEPT
                     !.tables[t][SectionNames[s]][c][property] = value])

delete_table(data, table_name) ==
    LET kept == SelectSeq(data.tables, LAMBDA t : t.name # table_name)
    IN  IF Len(kept) = Len(data.tables) THEN None
        ELSE Some([data EXCEPT !.tables = kept])

delete_column(data, table_name, column_name) ==
    LET t == find_table(data, table_name)
        s == IF t = 0 THEN 0 ELSE find_column(data.tables[t], column_name)
    IN  IF t = 0 \/ s = 0 THEN None
        ELSE Some([data EXCEPT !.tables[t][SectionNames[s]] =
                      SelectSeq(@, LAMBDA c : c.name # column_name)])

\* What the setter is started on and asked to do.
TableT ==
    SemanticTable(<<"t">>, BaseTable(<<"D">>, <<"S">>, <<"P">>),
                  <<ColumnEntry(<<"x">>, <<"m">>)>>)
TableU ==
    SemanticTable(<<"u">>, BaseTable(<<"D">>, <<"S">>, <<"Q">>),
                  <<ColumnEntry(<<"y">>, <<"n">>)>>)

SetterDocuments ==
    {[tables |-> ts, verified_queries |-> <<>>] :
        ts \in {<<>>, <<TableT>>, <<TableT, TableU>>}}

NewTables == {TableT, TableU, [TableU EXCEPT !.name = <<>>]}

NewColumns ==
    {[name |-> <<"y">>, expr |-> <<"n">>, kind |-> "dimension"],
     [name |-> <<"y">>, expr |-> <<"n">>, kind |-> "table"],
     [name |-> <<>>, expr |-> <<"n">>, kind |-> "dimension"]}

SetterTableNames == {<<"t">>, <<"u">>}
SetterColumnNames == {<<"x">>, <<"y">>}

TableUpdates ==
    {[property |-> "name", value |-> <<"u">>],
     [property |-> "base_table",
      value |-> BaseTable(<<"D">>, <<"S">>, <<"Q">>)]}

ColumnUpdates ==
    {[column_name |-> <<"x">>, property |-> "name", value |-> <<"y">>],
     [column_name |-> <<"x">>, property |-> "expr", value |-> <<"n">>]}

\* SELECT m FROM D.S.P and SELECT m FROM D.S.Q
VqrStatements ==
    {[ctes |-> <<>>,
      select |-> Select(<<TableNode(<<"D">>, <<"S">>, tb, <<>>)>>, <<>>,
                        <<ColumnNode(<<>>, col)>>)] :
        tb \in {<<"P">>, <<"Q">>}, col \in {<<"m">>}}

VqrNames == {<<"q">>, <<>>}

\* Bound: operations one run of the setter applies.
MaxOperations == 3

(***************************************************************************)
(* Documents whose names are looked up in their own mappings               *)
(***************************************************************************)
\* Bound: tables of a document.
MaxTables == 2

MapTableNames == {<<"a", "b">>, <<"A", "B">>, <<"A", "b">>}
MapColumnNames == {<<"x">>, <<"X">>, <<"x", "Y">>}

MapTableShapes ==
    {SemanticTable(nm, base, <<ColumnEntry(cn, <<"m">>)>>) :
        nm \in MapTableNames,
        base \in {BaseTable(<<"D">>, <<"S">>, <<"P">>),
                  BaseTable(<<"D">>, <<"S">>, <<"Q">>),
                  BaseTable(<<"D">>, <<"S">>, <<>>)},
        cn \in MapColumnNames}

MapDocuments ==
    {[tables |-> ts] : ts \in SeqsFromTo(MapTableShapes, 1, MaxTables)}

\* The results of looking up key, key.lower() and key.upper().
LookupThree(key, mapping) ==
    [exact |-> case_insensitive_lookup(key, mapping),
     lower |-> case_insensitive_lookup(Lower(key), mapping),
     upper |-> case_insensitive_lookup(Upper(key), mapping)]

ColumnLookupThree(column_name, columns_dict) ==
    [exact |-> case_insensitive_column_lookup(column_name, columns_dict),
     lower |-> case_insensitive_column_lookup(Lower(column_name),
                                              columns_dict),
     upper |-> case_insensitive_column_lookup(Upper(column_name),
                                              columns_dict)]

(***************************************************************************)
(* infer_primary_keys.py                                                   *)
(*                                                                         *)
(* The database is what it answers: the DESCRIBE rows, the row count, the  *)
(* distinct count of each column and of a column combination, and the      *)
(* columns whose queries fail.  uniqueness_threshold is kept in            *)
(* ten-thousandths (9500 for 0.95) and uniqueness_percentage in hundredths *)
(* of a percent, so both are integers.                                     *)
(***************************************************************************)
\* Bound: --max-composite-cols.
MaxCompositeCols == 3

\* sub in s
Contains(s, sub) ==
    \E i \in 0..(Len(s) - Len(sub)) : SubSeq(s, i + 1, i + Len(sub)) = sub

\* s.endswith(sub)
EndsWith(s, sub) ==
    Len(s) >= Len(sub) /\ SubSeq(s, Len(s) - Len(sub) + 1, Len(s)) = sub

ContainsAny(s, subs) == \E sub \in subs : Contains(s, sub)

TemporalKeywords ==
    {<<"D", "A", "T", "E">>, <<"T", "I", "M", "E">>,
     <<"T", "I", "M", "E", "S", "T", "A", "M", "P">>, <<"D", "S">>,
     <<"D", "T">>}

DescriptiveKeywords ==
    {<<"N", "A", "M", "E">>,
     <<"D", "E", "S", "C", "R", "I", "P", "T", "I", "O", "N">>,
     <<"C", "O", "M", "M", "E", "N", "T">>, <<"T", "E", "X", "T">>,
     <<"C", "O", "N", "T", "E", "N", "T">>}

\* The score of a column before its null rate is read.
HeuristicScore(col_meta) ==
    LET name == Upper(col_meta.name)
        data_type == Upper(col_meta.data_type)
    IN  (IF Contains(name, <<"_", "I", "D">>) \/ EndsWith(name, <<"I", "D">>)
         THEN 3 ELSE 0)
        + (IF Contains(name, <<"_", "K", "E", "Y">>)
              \/ EndsWith(name, <<"K", "E", "Y">>)
           THEN 3 ELSE 0)
        + (IF ContainsAny(name, TemporalKeywords) THEN 2 ELSE 0)
        + (IF Contains(data_type, <<"N", "U", "M", "B", "E", "R">>)
              \/ Contains(data_type, <<"I", "N", "T">>)
           THEN 1 ELSE 0)
        + (IF ContainsAny(data_type, {<<"D", "A", "T", "E">>,
                                      <<"T", "I", "M", "E">>})
           THEN 2 ELSE 0)
        + (IF Contains(data_type, <<"V", "A", "R", "C", "H", "A", "R">>)
              \/ Contains(data_type, <<"T", "E", "X", "T">>)
           THEN IF ContainsAny(name, DescriptiveKeywords) THEN 0 - 2 ELSE 1
           ELSE 0)
        + (IF ContainsAny(data_type, {<<"F", "L", "O", "A", "T">>,
                                      <<"D", "O", "U", "B", "L", "E">>,
                                      <<"D", "E", "C", "I", "M", "A", "L">>})
           THEN 0 - 1 ELSE 0)
        + (IF ~col_meta.nullable THEN 1 ELSE 0)

\* The columns the heuristic keeps: score at least 2, and still at least 2
\* after 2 is taken off for a null rate above 10%.
filter_key_candidate_columns(columns_metadata, high_null) ==
    LET kept == SelectSeq(columns_metadata,
                    LAMBDA col_meta :
                        /\ HeuristicScore(col_meta) >= 2
                        /\ HeuristicScore(col_meta)
                             - (IF col_meta.name \in high_null THEN 2 ELSE 0)
                               >= 2)
    IN  [i \in DOMAIN kept |-> kept[i].name]

\* The null-rate queries the heuristic issues.
NullRateQueries(columns_metadata) ==
    LET scored == SelectSeq(columns_metadata,
                      LAMBDA col_meta : HeuristicScore(col_meta) >= 2)
    IN  [i \in DOMAIN scored |->
            [kind |-> "null_rate", columns |-> <<scored[i].name>>]]

get_columns(db) ==
    [i \in DOMAIN db.columns_metadata |-> db.columns_metadata[i].name]

\* A failed query answers 0.
get_column_cardinality(db, column) ==
    IF column \in db.denied THEN 0 ELSE DictGet(db.distinct, column)

get_composite_cardinality(db, columns) ==
    IF \E i \in DOMAIN columns : columns[i] \in db.denied THEN 0
    ELSE IF Cardinality(Range(columns)) > 1 THEN db.combo_distinct
    ELSE DictGet(db.distinct, columns[1])

\* round(n / d, 0), halves to the even neighbour.
RoundHalfEven(n, d) ==
    LET q == n \div d
        r == n % d
    IN  IF 2 * r < d THEN q
        ELSE IF 2 * r > d THEN q + 1
        ELSE IF q % 2 = 0 THEN q ELSE q + 1

\* Mutant: candidates are the combinations at or below the threshold.
meets_threshold_below(distinct_count, row_count, uniqueness_threshold) ==
    distinct_count * 10000 <= uniqueness_threshold * row_count

\* distinct_count / row_count >= uniqueness_threshold
\* Mutant: the uniqueness must exceed the threshold.
meets_threshold_strict(distinct_count, row_count, uniqueness_threshold) ==
    distinct_count * 10000 > uniqueness_threshold * row_count

meets_threshold(distinct_count, row_count, uniqueness_threshold) ==
    distinct_count * 10000 >= uniqueness_threshold * row_count

Candidate(columns, distinct_count, row_count, type) ==
    [columns |-> columns,
     distinct_count |-> distinct_count,
     row_count |-> row_count,
     uniqueness_percentage |-> RoundHalfEven(distinct_count * 10000,
                                             row_count),
     type |-> type]

CardinalityQuery(columns) == [kind |-> "cardinality", columns |-> columns]

find_single_column_keys(db, columns, row_count, uniqueness_threshold) ==
    LET hits == SelectSeq(columns,
                    LAMBDA column :
                        /\ row_count > 0
                        /\ meets_threshold(get_column_cardinality(db, column),
                                           row_count, uniqueness_threshold))
    IN  [i \in DOMAIN hits |->
            Candidate(<<hits[i]>>, get_column_cardinality(db, hits[i]),
                      row_count, 1)]

SingleColumnQueries(columns) ==
    [i \in DOMAIN columns |-> CardinalityQuery(<<columns[i]>>)]

\* itertools.combinations(columns, k), in its order.
RECURSIVE Combinations(_, _)
Combinations(columns, k) ==
    IF k = 0 THEN <<<<>>>>
    ELSE IF Len(columns) < k THEN <<>>
    ELSE LET with == Combinations(Tail(columns), k - 1)
         IN  [i \in DOMAIN with |-> <<Head(columns)>> \o with[i]]
                 \o Combinations(Tail(columns), k)

\* The combinations of 2 .. max_cols columns, in the order they are tried.
AllCombinations(columns, max_cols) ==
    Concat([n \in 1..(IF max_cols >= 2 THEN max_cols - 1 ELSE 0) |->
               Combinations(columns, n + 1)])

find_composite_keys(db, columns, row_count, max_cols, uniqueness_threshold) ==
    LET hits == SelectSeq(AllCombinations(columns, max_cols),
                    LAMBDA combo :
                        /\ row_count > 0
                        /\ meets_threshold(
                               get_composite_cardinality(db, combo),
                               row_count, uniqueness_threshold))
    IN  [i \in DOMAIN hits |->
            Candidate(hits[i], get_composite_cardinality(db, hits[i]),
                      row_count, Len(hits[i]))]

CompositeQueries(columns, max_cols) ==
    LET combos == AllCombinations(columns, max_cols)
    IN  [i \in DOMAIN combos |-> CardinalityQuery(combos[i])]

\* The sort key (-uniqueness_percentage, len(columns)) puts a before b.
RanksBefore(a, b) ==
    \/ a.uniqueness_percentage > b.uniqueness_percentage
    \/ /\ a.uniqueness_percentage = b.uniqueness_percentage
       /\ Len(a.columns) < Len(b.columns)

\* sorted() is stable: equal keys keep the order they came in.
RECURSIVE rank_candidates(_)
rank_candidates(candidates) ==
    IF candidates = <<>> THEN <<>>
    ELSE LET n == Len(candidates)
             last == candidates[n]
             sorted == rank_candidates(SubSeq(candidates, 1, n - 1))
             ahead == {i \in DOMAIN sorted : ~RanksBefore(last, sorted[i])}
             k == IF ahead = {} THEN 0
                  ELSE CHOOSE i \in ahead : \A j \in ahead : j <= i
         IN  SubSeq(sorted, 1, k) \o <<last>> \o SubSeq(sorted, k + 1, n - 1)

\* Mutant: an empty table is analysed like any other.
table_is_empty_never(row_count) == FALSE

table_is_empty(row_count) == row_count = 0

\* The hints that name a column of the table, spelled as the table does.
\* Mutant: a hint counts only when spelled as the table spells the column.
ValidHintColumns_exact(columns, hint_columns) ==
    SelectSeq(hint_columns, LAMBDA h : h \in Range(columns))

ValidHintColumns(columns, hint_columns) ==
    LET columns_upper ==
            DictFromItems([i \in DOMAIN columns |->
                              Item(Upper(columns[i]), columns[i])])
        valid == SelectSeq(hint_columns,
                     LAMBDA h : DictHas(columns_upper, Upper(h)))
    IN  [i \in DOMAIN valid |-> DictGet(columns_upper, Upper(valid[i]))]

\* The result and the queries sent, in order.  hint_columns is <<>> when
\* none were given.
infer_primary_keys(db, max_composite_cols, hint_columns, uniqueness_threshold) ==
    LET columns == get_columns(db)
        row_count == db.row_count
        first == <<[kind |-> "describe", columns |-> <<>>],
                   [kind |-> "row_count", columns |-> <<>>]>>
        valid_hint_columns == ValidHintColumns(columns, hint_columns)
        analysed == IF hint_columns # <<>> THEN valid_hint_columns
                    ELSE columns
        composite_candidates ==
            IF hint_columns # <<>> /\ valid_hint_columns # <<>>
            THEN find_composite_keys(db, valid_hint_columns, row_count,
                                     max_composite_cols,
                                     uniqueness_threshold)
            ELSE <<>>
        single_column_candidates ==
            find_single_column_keys(db, analysed, row_count,
                                    uniqueness_threshold)
    IN  IF table_is_empty(row_count)
        THEN [row_count |-> 0, candidates |-> <<>>, queries |-> first]
        ELSE [row_count |-> row_count,
              candidates |-> rank_candidates(single_column_candidates
                                             \o composite_candidates),
              queries |-> first
                  \o (IF hint_columns # <<>> /\ valid_hint_columns # <<>>
                      THEN CompositeQueries(valid_hint_columns,
                                            max_composite_cols)
                      ELSE <<>>)
                  \o SingleColumnQueries(analysed)]

\* What DESCRIBE TABLE answers: ID INT NOT NULL, DS DATE, V TEXT.
KeyColumnsMetadata ==
    <<[name |-> <<"I", "D">>, data_type |-> <<"I", "N", "T">>,
       nullable |-> FALSE],
      [name |-> <<"D", "S">>, data_type |-> <<"D", "A", "T", "E">>,
       nullable |-> TRUE],
      [name |-> <<"V">>, data_type |-> <<"T", "E", "X", "T">>,
       nullable |-> TRUE]>>

KeyColumnNames == {<<"I", "D">>, <<"D", "S">>, <<"V">>}

RowCounts == {0, 4, 100000}

\* Few distinct values, all but one row distinct, every row distinct.
DistinctChoices(row_count) ==
    IF row_count = 0 THEN {0} ELSE {2, row_count - 1, row_count}

\* Distinct counts one table can have: a combination has at least as many
\* distinct values as each of its columns and at most their product.
AtMostProduct(dc, a, b) ==
    IF a = 0 THEN dc = 0 ELSE (dc + a - 1) \div a <= b

ConsistentCounts(d1, d2, d3, dc) ==
    /\ dc >= d1 /\ dc >= d2 /\ dc >= d3
    /\ AtMostProduct(dc, d1, d2)
    /\ AtMostProduct(dc, d1, d3)
    /\ AtMostProduct(dc, d2, d3)

KeyDatabases ==
    UNION {
      {db \in
         {[columns_metadata |-> KeyColumnsMetadata,
           row_count |-> row_count,
           distinct |-> <<Item(<<"I", "D">>, d1), Item(<<"D", "S">>, d2),
                          Item(<<"V">>, d3)>>,
           combo_distinct |-> dc,
           denied |-> denied,
           high_null |-> high_null] :
             d1 \in DistinctChoices(row_count),
             d2 \in DistinctChoices(row_count),
             d3 \in DistinctChoices(row_count),
             dc \in DistinctChoices(row_count),
             denied \in {{}, {<<"I", "D">>}, {<<"V">>}},
             high_null \in {{}, {<<"D", "S">>}}} :
         ConsistentCounts(db.distinct[1].v, db.distinct[2].v,
                          db.distinct[3].v, db.combo_distinct)} :
      row_count \in RowCounts}

\* --hint-columns: none, id, "ID,DS,V", zz, "id,ID".
HintColumns ==
    {<<>>, <<<<"i", "d">>>>,
     <<<<"I", "D">>, <<"D", "S">>, <<"V">>>>,
     <<<<"z", "z">>>>,
     <<<<"i", "d">>, <<"I", "D">>>>}

\* --uniqueness-threshold 0, 0.95 and 1.0, in ten-thousandths.
Thresholds == {0, 9500, 10000}

(***************************************************************************)
(* relationship_creation.py: main()                                        *)
(***************************************************************************)
\* A name no table and no column of the documents below carries.
Missing == <<"z">>

\* Column entries of a section: {"name": ...}.
Col(nm) == [name |-> nm]

\* The documents the CLI loads: two tables, each with dimension "a" and
\* fact "b", each with or without a primary key on "a".
CliKeys == {None, Some(<<<<"a">>>>)}
CliTables(nm) ==
    [name : {nm}, primary_key : CliKeys, unique_keys : {None},
     dimensions : {<<Col(<<"a">>)>>}, facts : {<<Col(<<"b">>)>>},
     time_dimensions : {<<>>}]
CliDocuments ==
    {[tables |-> <<l, r>>] : l \in CliTables(LeftName), r \in CliTables(RightName)}

\* --left-columns / --right-columns take nargs="+": at least one value.
CliColNames == {<<"a">>, <<"A">>, Missing}
CliColLists == SeqsFromTo(CliColNames, 1, MaxJoinCols)
CliArgs ==
    [left_table : {Lower(LeftName), Missing},
     right_table : {RightName, Missing},
     left_columns : CliColLists,
     right_columns : CliColLists,
     skip_validation : BOOLEAN]

get_table(semantic_model, table_name) ==
    LET table_name_lower == Lower(table_name)
        tables == semantic_model.tables
        hits == {i \in DOMAIN tables : Lower(tables[i].name) = table_name_lower}
    IN  IF hits = {} THEN None
        ELSE Some(tables[CHOOSE i \in hits : \A j \in hits : i <= j])

\* The list of missing columns; all_exist is "the list is empty".
validate_columns_exist(table, columns) ==
    LET table_columns ==
            {Lower(table.dimensions[i].name) : i \in DOMAIN table.dimensions}
            \cup {Lower(table.facts[i].name) : i \in DOMAIN table.facts}
            \cup {Lower(table.time_dimensions[i].name) :
                     i \in DOMAIN table.time_dimensions}
    IN  SelectSeq(columns, LAMBDA col : Lower(col) \notin table_columns)

\* Mutant: no classification counts as a rejection.
IsRejected_never(rel_type) == FALSE

\* "rejected" in rel_type
IsRejected(rel_type) == rel_type = "many_to_many (rejected)"

(***************************************************************************)
(* relationship_creation.py: validate_relationship_in_database()           *)
(***************************************************************************)
\* base_table of a table handed to the validation: a mapping, a missing
\* key (table.get answers {}), or a null value.
BaseMapping(database, schema, table_name) ==
    [kind |-> "mapping", database |-> database, schema |-> schema,
     table |-> table_name]
BaseAbsent == [kind |-> "absent", database |-> <<>>, schema |-> <<>>,
               table |-> <<>>]
BaseNull == [kind |-> "null", database |-> <<>>, schema |-> <<>>,
             table |-> <<>>]

\* None when base_table is null: None.get raises AttributeError.
get_physical_table_fqn(table) ==
    IF table.base_table.kind = "null" THEN None
    ELSE Some(Fqn(table.base_table.database, table.base_table.schema,
                  table.base_table.table))

\* Entries of dimensions, facts and time_dimensions, in the order searched.
SearchedColumns(table) ==
    table.dimensions \o table.facts \o table.time_dimensions

\* The expr of the first entry of that name (the name itself when the entry
\* has no expr), None when no entry has the name.
get_physical_column_name(table, logical_column_name) ==
    LET entries == SearchedColumns(table)
        hits == {i \in DOMAIN entries :
                    Lower(entries[i].name) = Lower(logical_column_name)}
    IN  IF hits = {} THEN None
        ELSE LET entry == entries[CHOOSE i \in hits : \A j \in hits : i <= j]
             IN  Some(IF IsNone(entry.expr) THEN entry.name
                      ELSE Val(entry.expr))

\* An error message: what failed and on which side.
ErrorMessage(kind, side, subject) ==
    [kind |-> kind, side |-> side, subject |-> subject]

\* Mutant: every failure is reported as a generic validation error.
Failure_generic(kind, side, subject) ==
    Some([is_valid |-> FALSE,
          errors |-> <<ErrorMessage("validation_error", "none", <<>>)>>])

\* errors.append(...); return False, errors
Failure(kind, side, subject) ==
    Some([is_valid |-> FALSE,
          errors |-> <<ErrorMessage(kind, side, subject)>>])

\* return True, []
Success == Some([is_valid |-> TRUE, errors |-> <<>>])

\* A sub-step that ran, and whether it succeeded.
SubStep(kind, side, subject, ok) ==
    [kind |-> kind, side |-> side, subject |-> subject, ok |-> ok]

\* The tables main() hands over: dimension a with expr m, dimension e with
\* an empty expr, fact c without expr.
ValTable(nm, base) ==
    [name |-> nm, base_table |-> base,
     dimensions |-> <<[name |-> <<"a">>, expr |-> Some(<<"m">>)],
                      [name |-> <<"e">>, expr |-> Some(<<>>)]>>,
     facts |-> <<[name |-> <<"c">>, expr |-> None]>>,
     time_dimensions |-> <<>>]

ValLeftTables ==
    {ValTable(<<"l">>, base) :
        base \in {BaseMapping(<<"D">>, <<"S">>, <<"L">>), BaseNull}}
ValRightTables ==
    {ValTable(<<"r">>, base) :
        base \in {BaseMapping(<<"D">>, <<"S">>, <<"R">>), BaseAbsent}}

\* Column lists main() lets through: as many left as right columns, each
\* the name of a column of its table in some case.
ValInputs ==
    UNION {
      [left_table : ValLeftTables, right_table : ValRightTables,
       left_columns : [1..n -> {<<"a">>, <<"C">>, <<"e">>}],
       right_columns : [1..n -> {<<"A">>, <<"c">>}]] :
      n \in 1..MaxJoinCols}

\* The statements the database refuses.
ValDatabases ==
    [left_table : BOOLEAN, right_table : BOOLEAN,
     left_columns : {{}, {<<"m">>}, {<<"c">>}},
     right_columns : {{}, {<<"m">>}, {<<"c">>}},
     join : BOOLEAN]

(***************************************************************************)
(* pg_connect.py: load_pgpass() / save_pgpass()                            *)
(***************************************************************************)
\* Bound: entries handed to save_pgpass.
MaxEntries == 2

Colon == ":"
Backslash == "\\"
Newline == "\n"
CarriageReturn == "\r"
Hash == "#"
Whitespace == {" ", "\t", Newline, CarriageReturn}

\* str(s).replace("\\", "\\\\").replace(":", "\\:")
escape(s) ==
    Concat([i \in DOMAIN s |->
               IF s[i] = Backslash THEN <<Backslash, Backslash>>
               ELSE IF s[i] = Colon THEN <<Backslash, Colon>>
               ELSE <<s[i]>>])

\* escape, then .replace("\n", "").replace("\r", "")
escape_password(s) ==
    SelectSeq(escape(s), LAMBDA ch : ch \notin {Newline, CarriageReturn})

\* sep.join(parts)
RECURSIVE Join(_, _)
Join(parts, sep) ==
    IF parts = <<>> THEN <<>>
    ELSE IF Len(parts) = 1 THEN parts[1]
    ELSE parts[1] \o sep \o Join(Tail(parts), sep)

\* One line of the file for one entry.
PgpassLine(entry) ==
    Join(<<escape(entry.host), entry.port, escape(entry.database),
           escape(entry.user), escape_password(entry.password)>>, <<Colon>>)

\* The two comment lines save_pgpass writes first.
PgpassHeader == <<Hash, "h", Newline, Hash, "f", Newline>>

\* The text save_pgpass writes.
save_pgpass(entries) ==
    LET lines == [i \in DOMAIN entries |-> PgpassLine(entries[i])]
    IN  PgpassHeader \o Join(lines, <<Newline>>)
            \o (IF lines # <<>> THEN <<Newline>> ELSE <<>>)

\* for line in f: the text cut after each newline.
RECURSIVE FileLines(_)
FileLines(text) ==
    IF text = <<>> THEN <<>>
    ELSE IF \A i \in DOMAIN text : text[i] # Newline THEN <<text>>
    ELSE LET i == CHOOSE j \in DOMAIN text :
                      text[j] = Newline /\ \A h \in 1..(j - 1) : text[h] # Newline
         IN  <<SubSeq(text, 1, i)>> \o FileLines(SubSeq(text, i + 1, Len(text)))

\* str.strip()
RECURSIVE Strip(_)
Strip(line) ==
    IF line = <<>> THEN line
    ELSE IF Head(line) \in Whitespace THEN Strip(Tail(line))
    ELSE IF line[Len(line)] \in Whitespace
    THEN Strip(SubSeq(line, 1, Len(line) - 1))
    ELSE line

\* The while loop of load_pgpass from position i, with the parts and the
\* current field read so far.
RECURSIVE SplitFields(_, _, _, _)
SplitFields(line, i, parts, current) ==
    IF i > Len(line) THEN Append(parts, current)
    ELSE IF line[i] = Backslash /\ i + 1 <= Len(line) /\ line[i + 1] = Colon
    THEN SplitFields(line, i + 2, parts, Append(current, Colon))
    ELSE IF line[i] = Colon
    THEN SplitFields(line, i + 1, Append(parts, current), <<>>)
    ELSE SplitFields(line, i + 1, parts, Append(current, line[i]))

PgpassEntry(host, port, database, user, password) ==
    [host |-> host, port |-> port, database |-> database, user |-> user,
     password |-> password]

\* The entries load_pgpass reads from a text.
load_pgpass(text) ==
    LET stripped == [i \in DOMAIN FileLines(text) |->
                        Strip(FileLines(text)[i])]
        kept == SelectSeq(stripped,
                    LAMBDA line : /\ line # <<>>
                                  /\ Head(line) # Hash
                                  /\ Len(SplitFields(line, 1, <<>>, <<>>)) = 5)
    IN  [i \in DOMAIN kept |->
            LET parts == SplitFields(kept[i], 1, <<>>, <<>>)
            IN  PgpassEntry(parts[1], parts[2], parts[3], parts[4],
                            parts[5])]

\* Hosts: test.com, host:with:colons, a host with a backslash.
PgHosts == {<<"t">>, <<"h", Colon, "w">>, <<"h", Backslash, "w">>}

\* Passwords: secret, pass:with:colons, one with a backslash, one ending in
\* a backslash, one with a newline and a carriage return, the empty one.
PgPasswords ==
    {<<"s">>, <<"p", Colon, "w">>, <<"p", Backslash, "w">>,
     <<"p", Backslash>>, <<"p", Newline, "w", CarriageReturn>>, <<>>}

PgEntries ==
    {PgpassEntry(host, <<"5">>, <<"d">>, <<"u">>, password) :
        host \in PgHosts, password \in PgPasswords}

PgEntryLists == SeqsUpTo(PgEntries, MaxEntries)

VARIABLES
    inf_pc,        \* "idle" before the call, "returned" after it
    inf_left,      \* left_table argument
    inf_right,     \* right_table argument
    inf_lcols,     \* left_columns argument
    inf_rcols,     \* right_columns argument
    inf_ret,       \* the returned (rel_type, dict) pair
    cli_pc,        \* position of main()
    cli_env,       \* SNOWFLAKE_AVAILABLE and SNOWFLAKE_CONNECTION_NAME
    cli_args,      \* the parsed argparse namespace
    cli_model,     \* the loaded semantic model
    cli_ret,       \* what infer_relationship_type returned to main()
    cli_msg,       \* the last message main() printed
    cli_exit,      \* the process exit status, once it has terminated
    cli_conn,      \* "none", "open" or "closed": the database connection
    cli_output,    \* TRUE once the relationship file has been written
    sql_pc,        \* "input", "resolved", "translated" or "round_trip"
    sql_doc,       \* the semantic model both tools have loaded
    sql_in,        \* the statement handed to the first translation
    sql_out,       \* the statement the last translation returned
    sql_raised,    \* the passes of the last translation that raised
    map_pc,        \* "loaded", "table" or "column"
    map_doc,       \* the document the mappings are built from
    map_key,       \* the declared name that was looked up
    map_ret,       \* what its three spellings returned
    set_pc,        \* "idle", "translated" or "failed" (the script exited)
    set_data,      \* SemanticModelSetter.data
    set_physical_to_logical_mapping,  \* the cached table mapping, or None
    set_column_mapping,               \* the cached column mapping, or None
    set_used,      \* the mappings the last translation was given
    set_operations_applied,  \* how many operations have been applied
    key_pc,        \* "idle", "ran" or "ran_twice"
    key_db,        \* what the database answers
    key_args,      \* max_composite_cols and hint_columns
    key_threshold, \* uniqueness_threshold of the last run
    key_ret,       \* what the last run returned and the queries it sent
    key_prev,      \* threshold and result of the run before
    val_pc,        \* position of validate_relationship_in_database
    val_in,        \* its arguments
    val_db,        \* the statements the database refuses
    val_i,         \* the place in the column list being checked
    val_executed,  \* the sub-steps run so far
    val_ret,       \* the returned (is_valid, errors) pair
    val_cursor,    \* "none", "open" or "closed"
    pg_pc,         \* "idle", "saved", "loaded" or "loaded_empty"
    pg_entries,    \* the entries handed to save_pgpass
    pg_file,       \* the text of ~/.pgpass, None while there is no file
    pg_loaded,     \* what load_pgpass returned
    con_pc,        \* position inside infer_primary_keys
    con_in,        \* table_name, the environment and what the database does
    con_conn,      \* the connection: "none", "open" or "closed"
    con_ret,       \* "none", "returned" or "raised"
    ups_pc,        \* "ready" while operations can be applied
    ups_initial,   \* what load_pgpass read from the file at the start
    ups_file,      \* the text of ~/.pgpass
    ups_latest,    \* key -> password of its most recent upsert not deleted
    ups_n,         \* operations applied
    out_pc,        \* position of pg_connect main(), the same in both runs
    out_in,        \* command line, response file less its passwords, environment
    out_pw,        \* the passwords of the response file, one record per run
    out_printed,   \* what each run printed to stdout and stderr
    out_data,      \* the keys of output["data"] of each run
    out_exit       \* the exit status of each run

infVars == <<inf_pc, inf_left, inf_right, inf_lcols, inf_rcols, inf_ret>>
cliVars == <<cli_pc, cli_env, cli_args, cli_model, cli_ret, cli_msg,
             cli_exit, cli_conn, cli_output>>
sqlVars == <<sql_pc, sql_doc, sql_in, sql_out, sql_raised>>
mapVars == <<map_pc, map_doc, map_key, map_ret>>
setVars == <<set_pc, set_data, set_physical_to_logical_mapping,
             set_column_mapping, set_used, set_operations_applied>>
keyVars == <<key_pc, key_db, key_args, key_threshold, key_ret, key_prev>>
valVars == <<val_pc, val_in, val_db, val_i, val_executed, val_ret, val_cursor>>
pgVars == <<pg_pc, pg_entries, pg_file, pg_loaded>>
conVars == <<con_pc, con_in, con_conn, con_ret>>
upsVars == <<ups_pc, ups_initial, ups_file, ups_latest, ups_n>>
outVars == <<out_pc, out_in, out_pw, out_printed, out_data, out_exit>>
vars == <<infVars, cliVars, sqlVars, mapVars, setVars, keyVars, valVars, pgVars,
          conVars, upsVars, outVars>>

exceptInf == <<cliVars, sqlVars, mapVars, setVars, keyVars, valVars, pgVars,
               conVars, upsVars, outVars>>
exceptCli == <<infVars, sqlVars, mapVars, setVars, keyVars, valVars, pgVars,
               conVars, upsVars, outVars>>
exceptSql == <<infVars, cliVars, mapVars, setVars, keyVars, valVars, pgVars,
               conVars, upsVars, outVars>>
exceptMap == <<infVars, cliVars, sqlVars, setVars, keyVars, valVars, pgVars,
               conVars, upsVars, outVars>>
exceptSet == <<infVars, cliVars, sqlVars, mapVars, keyVars, valVars, pgVars,
               conVars, upsVars, outVars>>
exceptKey == <<infVars, cliVars, sqlVars, mapVars, setVars, valVars, pgVars,
               conVars, upsVars, outVars>>
exceptVal == <<infVars, cliVars, sqlVars, mapVars, setVars, keyVars, pgVars,
               conVars, upsVars, outVars>>
exceptPg == <<infVars, cliVars, sqlVars, mapVars, setVars, keyVars, valVars,
              conVars, upsVars, outVars>>
exceptCon == <<infVars, cliVars, sqlVars, mapVars, setVars, keyVars, valVars,
              pgVars, upsVars, outVars>>
exceptUps == <<infVars, cliVars, sqlVars, mapVars, setVars, keyVars, valVars,
              pgVars, conVars, outVars>>
exceptOut == <<infVars, cliVars, sqlVars, mapVars, setVars, keyVars, valVars,
              pgVars, conVars, upsVars>>

InferIdle ==
    /\ inf_pc = "off"
    /\ inf_left = None
    /\ inf_right = None
    /\ inf_lcols = <<>>
    /\ inf_rcols = <<>>
    /\ inf_ret = None

CliIdle ==
    /\ cli_pc = "off"
    /\ cli_env = None
    /\ cli_args = None
    /\ cli_model = None
    /\ cli_ret = None
    /\ cli_msg = ""
    /\ cli_exit = None
    /\ cli_conn = "none"
    /\ cli_output = FALSE

SqlIdle ==
    /\ sql_pc = "off"
    /\ sql_doc = None
    /\ sql_in = None
    /\ sql_out = None
    /\ sql_raised = NoRaise

MapIdle ==
    /\ map_pc = "off"
    /\ map_doc = None
    /\ map_key = None
    /\ map_ret = None

SetIdle ==
    /\ set_pc = "off"
    /\ set_data = None
    /\ set_physical_to_logical_mapping = None
    /\ set_column_mapping = None
    /\ set_used = None
    /\ set_operations_applied = 0

KeyIdle ==
    /\ key_pc = "off"
    /\ key_db = None
    /\ key_args = None
    /\ key_threshold = 0
    /\ key_ret = None
    /\ key_prev = None

ValIdle ==
    /\ val_pc = "off"
    /\ val_in = None
    /\ val_db = None
    /\ val_i = 0
    /\ val_executed = <<>>
    /\ val_ret = None
    /\ val_cursor = "none"

PgIdle ==
    /\ pg_pc = "off"
    /\ pg_entries = <<>>
    /\ pg_file = None
    /\ pg_loaded = None

ConIdle ==
    /\ con_pc = "off"
    /\ con_in = None
    /\ con_conn = "none"
    /\ con_ret = "none"

UpsIdle ==
    /\ ups_pc = "off"
    /\ ups_initial = <<>>
    /\ ups_file = None
    /\ ups_latest = <<>>
    /\ ups_n = 0

OutIdle ==
    /\ out_pc = "off"
    /\ out_in = None
    /\ out_pw = None
    /\ out_printed = None
    /\ out_data = None
    /\ out_exit = None

\* The subsystems a specification does not run.
OthersIdle(running) ==
    /\ "inf" \in running \/ InferIdle
    /\ "cli" \in running \/ CliIdle
    /\ "sql" \in running \/ SqlIdle
    /\ "map" \in running \/ MapIdle
    /\ "set" \in running \/ SetIdle
    /\ "key" \in running \/ KeyIdle
    /\ "val" \in running \/ ValIdle
    /\ "pg" \in running \/ PgIdle
    /\ "con" \in running \/ ConIdle
    /\ "ups" \in running \/ UpsIdle
    /\ "out" \in running \/ OutIdle

(***************************************************************************)
(* SpecInfer: infer_relationship_type applied to every bounded input       *)
(***************************************************************************)
InferInit ==
    /\ inf_pc = "idle"
    /\ inf_left \in TableDicts(LeftName)
    /\ inf_right \in TableDicts(RightName)
    /\ inf_lcols \in JoinLists
    /\ inf_rcols \in JoinLists
    /\ inf_ret = None
    /\ CliIdle
    /\ SqlIdle
    /\ MapIdle
    /\ SetIdle
    /\ KeyIdle
    /\ ValIdle
    /\ PgIdle
    /\ ConIdle
    /\ UpsIdle
    /\ OutIdle

CallInfer ==
    /\ inf_pc = "idle"
    /\ inf_pc' = "returned"
    /\ inf_ret' = infer_relationship_type(inf_left, inf_right,
                                          inf_lcols, inf_rcols)
    /\ UNCHANGED <<inf_left, inf_right, inf_lcols, inf_rcols>>
    /\ UNCHANGED exceptInf

InferNext == CallInfer

SpecInfer == InferInit /\ [][InferNext]_vars

(***************************************************************************)
(* Properties of relationship inference                                    *)
(***************************************************************************)
\* The declared keys of a table that have at least one column.
DeclaredKeys(table) ==
    (IF IsNone(table.primary_key) THEN {} ELSE {Val(table.primary_key)})
    \cup (IF IsNone(table.unique_keys) THEN {}
          ELSE Range(Val(table.unique_keys)))

\* Some declared, non-empty key has each of its columns among cols,
\* names compared without regard to case.
KeyCovers(table, cols) ==
    \E key \in DeclaredKeys(table) :
        /\ key # <<>>
        /\ \A i \in DOMAIN key :
              \E j \in DOMAIN cols : Lower(key[i]) = Lower(cols[j])

IsRelationship(result) == "relationship_type" \in DOMAIN result
IsRejection(result) == "error" \in DOMAIN result

InfTableNamed(nm) == IF inf_left.name = nm THEN inf_left ELSE inf_right

RightColumns(rel) ==
    [i \in DOMAIN rel.relationship_columns |->
        rel.relationship_columns[i].right_column]

\* C1. Swap invariant: with join lists of equal length, every accepted
\* many_to_one relationship names as right_table a table one of whose keys
\* is covered by the emitted right-side columns; when only the caller's right
\* table is covered the caller's order is kept, and when only the caller's
\* left table is covered the tables and each column pair are swapped.
C1_SwapInvariant ==
    (/\ inf_pc = "returned"
     /\ Len(inf_lcols) = Len(inf_rcols)
     /\ IsRelationship(inf_ret.result)
     /\ inf_ret.result.relationship_type = "many_to_one")
    => LET rel == inf_ret.result
           lcov == KeyCovers(inf_left, inf_lcols)
           rcov == KeyCovers(inf_right, inf_rcols)
       IN  /\ KeyCovers(InfTableNamed(rel.right_table), RightColumns(rel))
           /\ Len(rel.relationship_columns) = Len(inf_lcols)
           /\ (rcov /\ ~lcov) =>
                 /\ rel.left_table = inf_left.name
                 /\ rel.right_table = inf_right.name
                 /\ \A i \in DOMAIN inf_lcols :
                       rel.relationship_columns[i] =
                           [left_column |-> inf_lcols[i],
                            right_column |-> inf_rcols[i]]
           /\ (lcov /\ ~rcov) =>
                 /\ rel.left_table = inf_right.name
                 /\ rel.right_table = inf_left.name
                 /\ \A i \in DOMAIN inf_lcols :
                       rel.relationship_columns[i] =
                           [left_column |-> inf_rcols[i],
                            right_column |-> inf_lcols[i]]

\* Witness of C1: a swapped many_to_one over two differing column pairs.
C1_Witness ==
    /\ inf_pc = "returned"
    /\ inf_ret.rel_type = "many_to_one (swapped)"
    /\ Len(inf_lcols) = 2
    /\ Len(inf_rcols) = 2
    /\ inf_lcols[1] # inf_rcols[1]
    /\ inf_lcols[1] # inf_lcols[2]

\* C2. Many-to-many total rejection: the call returns the rejection record
\* (error many_to_many with the caller's tables and column lists) exactly
\* when no key of the left table is covered by the left join columns and no
\* key of the right table is covered by the right join columns; a rejection
\* is never a relationship.
C2_ManyToManyRejection ==
    inf_pc = "returned"
    => LET neither == /\ ~KeyCovers(inf_left, inf_lcols)
                      /\ ~KeyCovers(inf_right, inf_rcols)
       IN  /\ neither <=> IsRejection(inf_ret.result)
           /\ neither <=> IsRejected(inf_ret.rel_type)
           /\ IsRejection(inf_ret.result) <=> ~IsRelationship(inf_ret.result)
           /\ neither =>
                 /\ inf_ret.result.error = "many_to_many"
                 /\ inf_ret.result.left_table = inf_left.name
                 /\ inf_ret.result.right_table = inf_right.name
                 /\ inf_ret.result.left_columns = inf_lcols
                 /\ inf_ret.result.right_columns = inf_rcols

\* Witness of C2: a rejection although both tables declare keys.
C2_Witness ==
    /\ inf_pc = "returned"
    /\ IsRejection(inf_ret.result)
    /\ get_all_constraint_sets(inf_left) # <<>>
    /\ get_all_constraint_sets(inf_right) # <<>>
    /\ inf_lcols # <<>>
    /\ inf_rcols # <<>>

\* C3. When a key of the left table is covered by the left join columns and
\* a key of the right table by the right join columns, the result is
\* one_to_one with tables and column pairs in the caller's order, also where
\* either many_to_one case would apply.
C3_OneToOneFirst ==
    (/\ inf_pc = "returned"
     /\ KeyCovers(inf_left, inf_lcols)
     /\ KeyCovers(inf_right, inf_rcols))
    => /\ inf_ret.rel_type = "one_to_one"
       /\ IsRelationship(inf_ret.result)
       /\ inf_ret.result.relationship_type = "one_to_one"
       /\ inf_ret.result.left_table = inf_left.name
       /\ inf_ret.result.right_table = inf_right.name
       /\ inf_ret.result.relationship_columns =
              [i \in 1..Min(Len(inf_lcols), Len(inf_rcols)) |->
                  [left_column |-> inf_lcols[i],
                   right_column |-> inf_rcols[i]]]

\* Witness of C3: one_to_one where the right side is covered by a unique key
\* only and the join lists differ.
C3_Witness ==
    /\ inf_pc = "returned"
    /\ inf_ret.rel_type = "one_to_one"
    /\ IsNone(inf_right.primary_key)
    /\ inf_lcols # inf_rcols
    /\ Len(inf_lcols) = 2

\* The join columns of one side as the code compares them.
LowerSet(cols) == {Lower(col) : col \in Range(cols)}

\* C23. Covering check: has_constraint_on_columns answers true exactly when
\* a declared key with columns (primary or unique) has all its columns
\* among the join columns of that side, case ignored; join columns beyond
\* the key are allowed; a table without a key with columns covers nothing;
\* and the classification follows these two answers.
C23_CoveringCheck ==
    inf_pc = "returned" =>
        LET left == has_constraint_on_columns(
                        get_all_constraint_sets(inf_left), LowerSet(inf_lcols))
            right == has_constraint_on_columns(
                        get_all_constraint_sets(inf_right), LowerSet(inf_rcols))
        IN  /\ left <=> KeyCovers(inf_left, inf_lcols)
            /\ right <=> KeyCovers(inf_right, inf_rcols)
            /\ (\A key \in DeclaredKeys(inf_left) : key = <<>>) => ~left
            /\ (\A key \in DeclaredKeys(inf_right) : key = <<>>) => ~right
            /\ inf_ret.rel_type = "one_to_one"
                   <=> (KeyCovers(inf_left, inf_lcols)
                        /\ KeyCovers(inf_right, inf_rcols))
            /\ inf_ret.rel_type = "many_to_one (swapped)"
                   <=> (KeyCovers(inf_left, inf_lcols)
                        /\ ~KeyCovers(inf_right, inf_rcols))

\* The right table's primary key A is covered by the join columns a, b:
\* another case, and one column more than the key.
C23_Witness ==
    /\ inf_pc = "returned"
    /\ inf_right.primary_key = Some(<<<<"A">>>>)
    /\ inf_right.unique_keys = None
    /\ inf_rcols = <<<<"a">>, <<"b">>>>
    /\ Len(inf_lcols) = 2
    /\ inf_ret.rel_type \in {"one_to_one", "many_to_one"}

\* C28. For join lists of any lengths, an accepted relationship emits as
\* many column pairs as join columns were given on each side, and its
\* right_column values hold every column of some key of the emitted right
\* table.
C28_EmittedPairsCoverKey ==
    (inf_pc = "returned" /\ IsRelationship(inf_ret.result)) =>
        LET rel == inf_ret.result
        IN  /\ Len(rel.relationship_columns) = Len(inf_lcols)
            /\ Len(rel.relationship_columns) = Len(inf_rcols)
            /\ KeyCovers(InfTableNamed(rel.right_table), RightColumns(rel))

(***************************************************************************)
(* Properties of the relationship_creation command line                    *)
(***************************************************************************)
HardFailures ==
    {"connector not installed", "connection name required",
     "column counts differ", "left table not found", "right table not found",
     "left columns not found", "right columns not found",
     "failed to connect", "validation failed"}

\* C4. The process ends with exit code 2 exactly when classification yielded
\* the many-to-many rejection, and every hard failure ends with exit code 1.
C4_ExitCodeTwoOnlyOnRejection ==
    cli_pc = "exited"
    => /\ Val(cli_exit) = 2 <=>
             (~IsNone(cli_ret) /\ IsRejected(Val(cli_ret).rel_type))
       /\ cli_msg \in HardFailures => Val(cli_exit) = 1

\* The classification accepted the relationship: the result is a
\* relationship of type one_to_one or many_to_one.
Accepted(ret) ==
    /\ IsRelationship(ret.result)
    /\ ret.result.relationship_type \in {"one_to_one", "many_to_one"}

\* The step that writes the output file.
WritesOutput == ~cli_output /\ cli_output'

\* C27. The output file is written only after an accepted classification
\* and either --skip-validation (no connection opened) or a passed
\* database validation (connection opened and closed); after a
\* many-to-many rejection, a failed validation or a failed connection no
\* output file is written, and after a rejection no connection was opened.
C27_OutputOnlyAfterAcceptance ==
    /\ [][WritesOutput =>
            /\ ~IsNone(cli_ret) /\ Accepted(Val(cli_ret))
            /\ \/ (/\ Val(cli_args).skip_validation
                   /\ cli_conn = "none"
                   /\ cli_msg = "inferred")
               \/ (/\ ~Val(cli_args).skip_validation
                   /\ cli_conn = "closed"
                   /\ cli_msg = "validation passed")]_vars
    /\ [](cli_output => cli_pc = "exited" /\ cli_msg = "done")
    /\ []((~IsNone(cli_ret) /\ IsRejection(Val(cli_ret).result))
            => (~cli_output /\ cli_conn = "none"))
    /\ [](cli_msg \in {"rejected", "validation failed", "failed to connect"}
            => ~cli_output)

\* A run that wrote the output after a passed validation.
C27_Witness ==
    /\ cli_output
    /\ ~Val(cli_args).skip_validation
    /\ cli_conn = "closed"
    /\ Accepted(Val(cli_ret))

(***************************************************************************)
(* SpecCli: one run of the relationship_creation command line              *)
(***************************************************************************)
CliInit ==
    /\ cli_pc = "parse_args"
    /\ cli_env \in [SNOWFLAKE_AVAILABLE : BOOLEAN,
                    connection_name : {None, Some("myconnection")}]
    /\ cli_args = None
    /\ cli_model = None
    /\ cli_ret = None
    /\ cli_msg = ""
    /\ cli_exit = None
    /\ cli_conn = "none"
    /\ cli_output = FALSE
    /\ InferIdle
    /\ SqlIdle
    /\ MapIdle
    /\ SetIdle
    /\ KeyIdle
    /\ ValIdle
    /\ PgIdle
    /\ ConIdle
    /\ UpsIdle
    /\ OutIdle

\* sys.exit(code) after printing msg
Exit(code, msg) ==
    /\ cli_pc' = "exited"
    /\ cli_exit' = Some(code)
    /\ cli_msg' = msg

\* parser.parse_args(): argparse reports a command line it cannot parse
\* (a required option missing, an option without its value) through
\* parser.error(), which exits with status 2.
ParseArgsError ==
    /\ cli_pc = "parse_args"
    /\ Exit(2, "usage")
    /\ UNCHANGED <<cli_env, cli_args, cli_model, cli_ret, cli_conn, cli_output>>
    /\ UNCHANGED exceptCli

ParseArgs ==
    /\ cli_pc = "parse_args"
    /\ \E args \in CliArgs : cli_args' = Some(args)
    /\ cli_pc' = "prerequisites"
    /\ UNCHANGED <<cli_env, cli_model, cli_ret, cli_msg, cli_exit,
                   cli_conn, cli_output>>
    /\ UNCHANGED exceptCli

should_validate == ~Val(cli_args).skip_validation

\* Lines 446-465: connection prerequisites, then the column counts.
CheckPrerequisites ==
    /\ cli_pc = "prerequisites"
    /\ IF should_validate /\ ~cli_env.SNOWFLAKE_AVAILABLE
       THEN Exit(1, "connector not installed")
       ELSE IF should_validate /\ IsNone(cli_env.connection_name)
       THEN Exit(1, "connection name required")
       ELSE IF Len(Val(cli_args).left_columns) # Len(Val(cli_args).right_columns)
       THEN Exit(1, "column counts differ")
       ELSE cli_pc' = "load" /\ UNCHANGED <<cli_msg, cli_exit>>
    /\ UNCHANGED <<cli_env, cli_args, cli_model, cli_ret, cli_conn, cli_output>>
    /\ UNCHANGED exceptCli

\* load_semantic_model raises (no such file, invalid YAML): the uncaught
\* exception ends the interpreter with status 1.
LoadFails ==
    /\ cli_pc = "load"
    /\ Exit(1, "traceback")
    /\ UNCHANGED <<cli_env, cli_args, cli_model, cli_ret, cli_conn, cli_output>>
    /\ UNCHANGED exceptCli

\* Lines 467-496: load the model, find both tables, validate the columns.
LoadAndLookUp ==
    /\ cli_pc = "load"
    /\ \E doc \in CliDocuments :
        LET args == Val(cli_args)
            left_table == get_table(doc, args.left_table)
            right_table == get_table(doc, args.right_table)
        IN  /\ cli_model' = Some(doc)
            /\ IF IsNone(left_table)
               THEN Exit(1, "left table not found")
               ELSE IF IsNone(right_table)
               THEN Exit(1, "right table not found")
               ELSE IF validate_columns_exist(Val(left_table),
                                              args.left_columns) # <<>>
               THEN Exit(1, "left columns not found")
               ELSE IF validate_columns_exist(Val(right_table),
                                              args.right_columns) # <<>>
               THEN Exit(1, "right columns not found")
               ELSE cli_pc' = "infer" /\ UNCHANGED <<cli_msg, cli_exit>>
    /\ UNCHANGED <<cli_env, cli_args, cli_ret, cli_conn, cli_output>>
    /\ UNCHANGED exceptCli

\* Lines 505-522: classify; a rejection exits with status 2.
InferAndBranch ==
    /\ cli_pc = "infer"
    /\ LET args == Val(cli_args)
           ret == infer_relationship_type(
                      Val(get_table(Val(cli_model), args.left_table)),
                      Val(get_table(Val(cli_model), args.right_table)),
                      args.left_columns, args.right_columns)
       IN  /\ cli_ret' = Some(ret)
           /\ IF IsRejected(ret.rel_type)
              THEN Exit(2, "rejected")
              ELSE /\ cli_pc' = IF should_validate THEN "connect" ELSE "save"
                   /\ cli_msg' = "inferred"
                   /\ UNCHANGED cli_exit
    /\ UNCHANGED <<cli_env, cli_args, cli_model, cli_conn, cli_output>>
    /\ UNCHANGED exceptCli

\* Line 530: snowflake.connector.connect raises.
ConnectFails ==
    /\ cli_pc = "connect"
    /\ Exit(1, "failed to connect")
    /\ UNCHANGED <<cli_env, cli_args, cli_model, cli_ret, cli_conn, cli_output>>
    /\ UNCHANGED exceptCli

Connect ==
    /\ cli_pc = "connect"
    /\ cli_pc' = "validate"
    /\ cli_conn' = "open"
    /\ cli_msg' = "connected"
    /\ UNCHANGED <<cli_env, cli_args, cli_model, cli_ret, cli_exit, cli_output>>
    /\ UNCHANGED exceptCli

\* Lines 534-546: validate_relationship_in_database answers (is_valid,
\* errors); conn.close(); a failed validation exits with status 1.
ValidateInDatabase ==
    /\ cli_pc = "validate"
    /\ cli_conn' = "closed"
    /\ \E is_valid \in BOOLEAN :
        IF ~is_valid
        THEN Exit(1, "validation failed")
        ELSE /\ cli_pc' = "save"
             /\ cli_msg' = "validation passed"
             /\ UNCHANGED cli_exit
    /\ UNCHANGED <<cli_env, cli_args, cli_model, cli_ret, cli_output>>
    /\ UNCHANGED exceptCli

\* connection.cursor() or conn.close() raises inside the try block: the
\* except clause reports a connection failure and exits with status 1.
ValidateRaises ==
    /\ cli_pc = "validate"
    /\ Exit(1, "failed to connect")
    /\ UNCHANGED <<cli_env, cli_args, cli_model, cli_ret, cli_conn, cli_output>>
    /\ UNCHANGED exceptCli

\* Lines 554-565: write the relationship and fall off the end of main().
SaveRelationship ==
    /\ cli_pc = "save"
    /\ cli_output' = TRUE
    /\ Exit(0, "done")
    /\ UNCHANGED <<cli_env, cli_args, cli_model, cli_ret, cli_conn>>
    /\ UNCHANGED exceptCli

\* open(output_path, "w") raises: uncaught, status 1.
SaveFails ==
    /\ cli_pc = "save"
    /\ Exit(1, "traceback")
    /\ UNCHANGED <<cli_env, cli_args, cli_model, cli_ret, cli_conn, cli_output>>
    /\ UNCHANGED exceptCli

CliNext ==
    \/ ParseArgsError
    \/ ParseArgs
    \/ CheckPrerequisites
    \/ LoadFails
    \/ LoadAndLookUp
    \/ InferAndBranch
    \/ ConnectFails
    \/ Connect
    \/ ValidateInDatabase
    \/ ValidateRaises
    \/ SaveRelationship
    \/ SaveFails

SpecCli == CliInit /\ [][CliNext]_vars

(***************************************************************************)
(* SpecSql: a statement translated by the getter (logical to physical),    *)
(* by the setter (physical to logical), or by one after the other          *)
(***************************************************************************)
SqlInit ==
    /\ sql_pc = "input"
    /\ sql_doc \in SqlDocuments
    /\ sql_in \in SqlStatements
    /\ sql_out = sql_in
    /\ sql_raised = NoRaise
    /\ InferIdle
    /\ CliIdle
    /\ MapIdle
    /\ SetIdle
    /\ KeyIdle
    /\ ValIdle
    /\ PgIdle
    /\ ConIdle
    /\ UpsIdle
    /\ OutIdle

\* SemanticModelGetter._resolve_sql on a freshly loaded document.
ResolveSqlStep(raises) ==
    /\ sql_pc = "input"
    /\ sql_pc' = "resolved"
    /\ sql_out' = ResolveSqlWith(sql_out,
                      build_logical_to_physical_mapping(sql_doc),
                      build_logical_to_physical_column_mapping(sql_doc),
                      raises)
    /\ sql_raised' = Raised(raises, PassesRun(
                          build_logical_to_physical_mapping(sql_doc),
                          build_logical_to_physical_column_mapping(sql_doc)))
    /\ UNCHANGED <<sql_doc, sql_in>>
    /\ UNCHANGED exceptSql

\* SemanticModelSetter._translate_vqr_sql on a freshly loaded document,
\* given the input statement or what the getter returned for it.
TranslateVqrSqlStep(raises) ==
    /\ sql_pc \in {"input", "resolved"}
    /\ sql_pc' = IF sql_pc = "input" THEN "translated" ELSE "round_trip"
    /\ sql_out' = TranslateVqrSqlWith(sql_out,
                      build_physical_to_logical_mapping(sql_doc),
                      build_physical_to_logical_column_mapping(sql_doc),
                      raises)
    /\ sql_raised' = Raised(raises, PassesRun(
                          build_physical_to_logical_mapping(sql_doc),
                          build_physical_to_logical_column_mapping(sql_doc)))
    /\ UNCHANGED <<sql_doc, sql_in>>
    /\ UNCHANGED exceptSql

ResolveSql == ResolveSqlStep(NoRaise)
TranslateVqrSql == TranslateVqrSqlStep(NoRaise)

SqlNext == ResolveSql \/ TranslateVqrSql

SpecSql == SqlInit /\ [][SqlNext]_vars

(***************************************************************************)
(* Properties of the translations (SpecSql)                                *)
(***************************************************************************)
\* The Column nodes of a statement with the SELECT each stands in, in the
\* order of AllTables.
SelectColumns(sel) ==
    [i \in DOMAIN sel.expressions |-> [column |-> sel.expressions[i],
                                       select |-> sel]]

AllColumns(parsed) ==
    SelectColumns(parsed.select)
        \o Concat([i \in DOMAIN parsed.ctes |->
                      SelectColumns(parsed.ctes[i].select)])

LogicalColumnNames(table) ==
    {SectionColumns(table)[i].name : i \in DOMAIN SectionColumns(table)}

\* The tables of the enclosing SELECT a column reference can mean: the one
\* its qualifier names (by alias, or by name when it has no alias), or the
\* FROM table when it has no qualifier.
ScopeTables(site) ==
    LET scope == SelectTables(site.select)
        q == site.column.table
    IN  IF q = <<>>
        THEN {scope[i].this : i \in DOMAIN site.select.from}
        ELSE {scope[i].this : i \in {j \in DOMAIN scope :
                  \/ scope[j].alias = q
                  \/ scope[j].alias = <<>> /\ scope[j].this = q}}

\* Every table reference is a CTE or the exact name of a table of the
\* table mapping; every column reference belongs to a CTE or is the exact
\* name of a logical column of the one table it can mean (a reference with
\* no qualifier stands in a SELECT without joins, and no other table of the
\* document declares a logical column of that name).
Resolvable(doc, stmt) ==
    LET table_mapping == build_logical_to_physical_mapping(doc)
        column_mapping == build_logical_to_physical_column_mapping(doc)
        cte_names == collect_cte_names(stmt)
        tables == AllTables(stmt)
        columns == AllColumns(stmt)
    IN  /\ \A i \in DOMAIN tables :
              \/ tables[i].this \in cte_names
              \/ /\ tables[i].catalog = <<>>
                 /\ tables[i].db = <<>>
                 /\ DictHas(table_mapping, tables[i].this)
        /\ \A i \in DOMAIN columns :
              \/ is_referencing_cte(columns[i].column, columns[i].select,
                                    cte_names)
              \/ /\ Cardinality(ScopeTables(columns[i])) = 1
                 /\ \A nm \in ScopeTables(columns[i]) :
                       /\ DictHas(table_mapping, nm)
                       /\ DictHas(column_mapping, nm)
                       /\ DictHas(DictGet(column_mapping, nm),
                                  columns[i].column.this)
                 /\ columns[i].column.table = <<>> =>
                       /\ columns[i].select.joins = <<>>
                       /\ \A j \in DOMAIN doc.tables :
                             doc.tables[j].name \notin ScopeTables(columns[i])
                             => columns[i].column.this
                                    \notin LogicalColumnNames(doc.tables[j])

\* No two tables of the document share a logical name or a physical FQN,
\* and no two logical columns of a table share a name or an expression.
OneToOne(doc) ==
    /\ \A i, j \in DOMAIN doc.tables :
          (/\ i # j
           /\ HasPhysicalReference(doc.tables[i])
           /\ HasPhysicalReference(doc.tables[j]))
          => /\ doc.tables[i].name # doc.tables[j].name
             /\ PhysicalFqn(doc.tables[i]) # PhysicalFqn(doc.tables[j])
    /\ \A i \in DOMAIN doc.tables :
          LET cols == SectionColumns(doc.tables[i])
          IN  \A j, k \in DOMAIN cols :
                  j # k => /\ cols[j].name # cols[k].name
                           /\ cols[j].expr # cols[k].expr

\* Two statements name the same tables and the same columns, place by
\* place (aliases and column qualifiers are not compared).
SameTargets(a, b) ==
    /\ \A i \in DOMAIN AllTables(a) :
          /\ AllTables(b)[i].catalog = AllTables(a)[i].catalog
          /\ AllTables(b)[i].db = AllTables(a)[i].db
          /\ AllTables(b)[i].this = AllTables(a)[i].this
    /\ \A i \in DOMAIN AllColumns(a) :
          AllColumns(b)[i].column.this = AllColumns(a)[i].column.this

\* C5. Round trip: a statement whose table and column references are all
\* resolvable by the mappings of the document (themselves one to one),
\* rewritten logical to
\* physical and then physical to logical, names the same logical tables
\* and the same logical columns as before.
C5_RoundTrip ==
    (sql_pc = "round_trip" /\ OneToOne(sql_doc)
                           /\ Resolvable(sql_doc, sql_in))
        => SameTargets(sql_in, sql_out)

\* The names the WITH clause of a statement defines.
DefinedCtes(stmt) == {stmt.ctes[i].alias : i \in DOMAIN stmt.ctes}

\* Every reference to a CTE of statement a (a table reference by its name,
\* a column reference qualified by its name) stands unchanged in b.
CteReferencesKept(a, b) ==
    LET cte_names == DefinedCtes(a)
    IN  /\ \A i \in DOMAIN AllTables(a) :
              AllTables(a)[i].this \in cte_names
                  => AllTables(b)[i] = AllTables(a)[i]
        /\ \A i \in DOMAIN AllColumns(a) :
              AllColumns(a)[i].column.table \in cte_names
                  => AllColumns(b)[i].column = AllColumns(a)[i].column

\* C6. CTE opacity: in a statement that defines a CTE c, neither direction
\* of translation alters a table reference c or a column reference c.x,
\* whether or not the document has a logical table named c (or C) or a
\* logical column named x.
C6_CteOpacity ==
    sql_pc # "input" => CteReferencesKept(sql_in, sql_out)

\* A translated statement with CTE c, FROM c and column c.x, under a
\* document whose logical table c declares column x and whose rewrite
\* changed the rest of the statement.
C6_Witness ==
    /\ sql_pc \in {"resolved", "round_trip"}
    /\ sql_in.ctes = <<CteC>>
    /\ sql_in.select.from = <<TableNode(<<>>, <<>>, <<"c">>, <<>>)>>
    /\ sql_in.select.expressions = <<ColumnNode(<<"c">>, <<"x">>)>>
    /\ \E i \in DOMAIN sql_doc.tables :
          /\ sql_doc.tables[i].name = <<"c">>
          /\ HasPhysicalReference(sql_doc.tables[i])
          /\ <<"x">> \in LogicalColumnNames(sql_doc.tables[i])
    /\ sql_out # sql_in
    /\ CteReferencesKept(sql_in, sql_out)

\* C9. A table without a complete physical reference is in neither table
\* mapping and in neither column mapping, and no reference to one of its
\* columns is replaced by the logical-to-physical rewrite.
C9_UnmappedTableUntouched ==
    \A i \in DOMAIN sql_doc.tables :
        LET table == sql_doc.tables[i]
            l2p == build_logical_to_physical_mapping(sql_doc)
            p2l == build_physical_to_logical_mapping(sql_doc)
        IN  ~HasPhysicalReference(table) =>
              /\ ~DictHas(l2p, table.name)
              /\ \A j \in DOMAIN p2l : p2l[j].v # table.name
              /\ ~DictHas(build_logical_to_physical_column_mapping(sql_doc),
                          table.name)
              /\ ~DictHas(build_physical_to_logical_column_mapping(sql_doc),
                          table.name)
              /\ sql_pc = "resolved" =>
                    \A k \in DOMAIN AllColumns(sql_in) :
                        (/\ ScopeTables(AllColumns(sql_in)[k]) = {table.name}
                         /\ AllColumns(sql_in)[k].column.this
                                \in LogicalColumnNames(table))
                        => AllColumns(sql_out)[k].column
                               = AllColumns(sql_in)[k].column

\* The tables of a document that have a complete physical reference.
MappedTables(doc) == SelectSeq(doc.tables, HasPhysicalReference)

\* The logical table a table reference matches: by its fully-qualified
\* physical name, else by its logical name, else by its bare or
\* schema-qualified physical table name (None when it matches none).
MatchedLogicalTable(doc, node) ==
    LET mapped == MappedTables(doc)
        byFqn == {i \in DOMAIN mapped :
                     /\ node.catalog # <<>> /\ node.db # <<>>
                     /\ Fqn(node.catalog, node.db, node.this)
                            = PhysicalFqn(mapped[i])}
        byLogical == {i \in DOMAIN mapped :
                         /\ node.catalog = <<>> /\ node.db = <<>>
                         /\ node.this = mapped[i].name}
        byBare == {i \in DOMAIN mapped :
                      /\ node.catalog = <<>>
                      /\ node.db \in {<<>>, Val(mapped[i].base_table).schema}
                      /\ node.this = Val(mapped[i].base_table).table}
        first == IF byFqn # {} THEN byFqn
                 ELSE IF byLogical # {} THEN byLogical ELSE byBare
    IN  IF first = {} THEN None
        ELSE Some(mapped[CHOOSE i \in first : \A j \in first : i <= j].name)

\* C16. Physical to logical: a table reference that is not a CTE is
\* rewritten to the logical table it matches by fully-qualified physical
\* name, else by logical name, else by bare physical table name.
C16_PhysicalToLogicalTableMatching ==
    (sql_pc = "translated" /\ OneToOne(sql_doc)) =>
        \A i \in DOMAIN AllTables(sql_in) :
            LET node == AllTables(sql_in)[i]
                logical == MatchedLogicalTable(sql_doc, node)
            IN  (node.this \notin DefinedCtes(sql_in) /\ ~IsNone(logical))
                    => AllTables(sql_out)[i]
                           = [node EXCEPT !.catalog = <<>>, !.db = <<>>,
                                          !.this = Val(logical)]

\* name matches a key of a column map: as written, lowered or uppered.
MatchesAKey(name, columns_dict) ==
    \E i \in DOMAIN columns_dict :
        columns_dict[i].k \in {name, Lower(name), Upper(name)}

\* The tables whose column map has a case-insensitive match for a name.
TablesHaving(name, column_mapping) ==
    {column_mapping[i].k : i \in {j \in DOMAIN column_mapping :
                                     MatchesAKey(name, column_mapping[j].v)}}

\* The column references without qualifier that stand in a SELECT whose
\* FROM table is not a CTE.
UnqualifiedSites(stmt) ==
    {i \in DOMAIN AllColumns(stmt) :
        /\ AllColumns(stmt)[i].column.table = <<>>
        /\ \A j \in DOMAIN AllColumns(stmt)[i].select.from :
              AllColumns(stmt)[i].select.from[j].this
                  \notin DefinedCtes(stmt)}

\* C17. An unqualified column reference outside a CTE-sourced SELECT is
\* substituted only when exactly one table's column map has a
\* case-insensitive match for its name; with two or more it is left alone.
C17_UnqualifiedColumnResolution ==
    sql_pc \in {"resolved", "translated"} =>
        LET column_mapping ==
                IF sql_pc = "resolved"
                THEN build_logical_to_physical_column_mapping(sql_doc)
                ELSE build_physical_to_logical_column_mapping(sql_doc)
        IN  \A i \in UnqualifiedSites(sql_in) :
                LET before == AllColumns(sql_in)[i].column
                    after == AllColumns(sql_out)[i].column
                    having == TablesHaving(before.this, column_mapping)
                IN  /\ Cardinality(having) >= 2 => after = before
                    /\ after # before => Cardinality(having) = 1

\* C18. SELECT a.x FROM t a, with t on D.S.P and t.x mapped to the
\* expression m*n (and an unrelated table u on D.S.Q): the
\* logical-to-physical translation gives SELECT m*n FROM D.S.P a.
C18_ConcreteForwardRewrite ==
    (/\ sql_pc = "resolved"
     /\ sql_doc.tables[1]
            = SemanticTable(<<"t">>, BaseTable(<<"D">>, <<"S">>, <<"P">>),
                            <<ColumnEntry(<<"x">>, <<"m", "*", "n">>)>>)
     /\ sql_doc.tables[2]
            = SemanticTable(<<"u">>, BaseTable(<<"D">>, <<"S">>, <<"Q">>),
                            <<ColumnEntry(<<"y">>, <<"m">>)>>)
     /\ sql_in = [ctes |-> <<>>,
                  select |-> Select(
                      <<TableNode(<<>>, <<>>, <<"t">>, <<"a">>)>>, <<>>,
                      <<ColumnNode(<<"a">>, <<"x">>)>>)])
        => /\ sql_out.select.from
                  = <<TableNode(<<"D">>, <<"S">>, <<"P">>, <<"a">>)>>
           /\ sql_out.select.expressions
                  = <<ColumnNode(<<>>, <<"m", "*", "n">>)>>

\* The logical tables of the document a table name matches, whatever the
\* case of either.
LogicalTablesNamed(doc, name) ==
    {i \in DOMAIN MappedTables(doc) :
        Lower(MappedTables(doc)[i].name) = Lower(name)}

\* A reference the logical-to-physical table pass leaves alone: it has
\* both a catalog and a schema part, or it names a CTE of the statement.
SkippedReference(stmt, node) ==
    \/ (node.catalog # <<>> /\ node.db # <<>>)
    \/ node.this \in DefinedCtes(stmt)

\* C26. Logical-to-physical table pass: a reference with both catalog and
\* schema, or naming a CTE, is unchanged; every other reference whose name
\* matches a logical table in any case gets the database, schema and table
\* of that table's physical reference; the alias is always kept; a second
\* application of the pass changes nothing.
C26_LogicalToPhysicalTablePass ==
    sql_pc = "resolved" =>
        LET mapping == build_logical_to_physical_mapping(sql_doc)
            once == resolve_logical_to_physical_table_names(sql_in, mapping)
            twice == resolve_logical_to_physical_table_names(once, mapping)
        IN  /\ AllTables(sql_out) = AllTables(once)
            /\ twice = once
            /\ \A i \in DOMAIN AllTables(sql_in) :
                  LET before == AllTables(sql_in)[i]
                      after == AllTables(sql_out)[i]
                      named == LogicalTablesNamed(sql_doc, before.this)
                  IN  /\ after.alias = before.alias
                      /\ SkippedReference(sql_in, before) => after = before
                      /\ (~SkippedReference(sql_in, before) /\ named # {}) =>
                            \E j \in named :
                                LET base == Val(MappedTables(sql_doc)[j].base_table)
                                IN  /\ after.catalog = base.database
                                    /\ after.db = base.schema
                                    /\ after.this = base.table

\* forward and backward are inverse dictionaries: every key of forward is
\* found back under its value, and both have as many entries.
MutualInverses(forward, backward) ==
    /\ Len(forward) = Len(backward)
    /\ \A i \in DOMAIN forward :
          /\ DictHas(backward, forward[i].v)
          /\ DictGet(backward, forward[i].v) = forward[i].k

\* C30. The two table mappings built from one document are mutual
\* inverses (each logical name is found back under its physical FQN, and
\* both mappings have the same number of entries), also when two logical
\* tables share a physical table; and so are, table by table, the two
\* column mappings.
C30_MappingsMutualInverses ==
    sql_pc = "round_trip" =>
        LET column_forward == build_logical_to_physical_column_mapping(sql_doc)
            column_backward == build_physical_to_logical_column_mapping(sql_doc)
        IN  /\ MutualInverses(build_logical_to_physical_mapping(sql_doc),
                              build_physical_to_logical_mapping(sql_doc))
            /\ DictKeys(column_forward) = DictKeys(column_backward)
            /\ \A i \in DOMAIN column_forward :
                  MutualInverses(column_forward[i].v,
                                 DictGet(column_backward, column_forward[i].k))

(***************************************************************************)
(* SpecSqlFault: the translations when a pass can meet an exception        *)
(***************************************************************************)
\* A pass raises when sqlglot cannot parse its input or when a lookup
\* meets a value it cannot handle; either pass can be the one.
RaiseChoices == [tables : BOOLEAN, columns : BOOLEAN]

SqlFaultInit ==
    /\ sql_pc = "input"
    /\ sql_doc \in SqlDocuments
    /\ sql_in \in {stmt \in SqlStatements :
                      stmt.ctes = <<>> /\ stmt.select.joins = <<>>}
    /\ sql_out = sql_in
    /\ sql_raised = NoRaise
    /\ InferIdle
    /\ CliIdle
    /\ MapIdle
    /\ SetIdle
    /\ KeyIdle
    /\ ValIdle
    /\ PgIdle
    /\ ConIdle
    /\ UpsIdle
    /\ OutIdle

ResolveSqlFaulty == \E raises \in RaiseChoices : ResolveSqlStep(raises)

TranslateVqrSqlFaulty ==
    \E raises \in RaiseChoices : TranslateVqrSqlStep(raises)

SqlFaultNext == ResolveSqlFaulty \/ TranslateVqrSqlFaulty

SpecSqlFault == SqlFaultInit /\ [][SqlFaultNext]_vars

\* C8. Fail-soft: when a pass of a translation raises, the translation
\* returns the statement it was given, unchanged.
C8_FailSoft ==
    (/\ sql_pc \in {"resolved", "translated"}
     /\ sql_raised.tables \/ sql_raised.columns)
        => sql_out = sql_in

(***************************************************************************)
(* SpecMap: a declared name looked up in the mappings of its document      *)
(***************************************************************************)
MapInit ==
    /\ map_pc = "loaded"
    /\ map_doc \in MapDocuments
    /\ map_key = None
    /\ map_ret = None
    /\ InferIdle
    /\ CliIdle
    /\ SqlIdle
    /\ SetIdle
    /\ KeyIdle
    /\ ValIdle
    /\ PgIdle
    /\ ConIdle
    /\ UpsIdle
    /\ OutIdle

\* The name of a declared table, looked up as the table pass does.
LookupTable ==
    /\ map_pc = "loaded"
    /\ \E i \in DOMAIN map_doc.tables :
          /\ map_key' = Some([table |-> i, column |-> 0])
          /\ map_ret' = LookupThree(map_doc.tables[i].name,
                            build_logical_to_physical_mapping(map_doc))
    /\ map_pc' = "table"
    /\ UNCHANGED map_doc
    /\ UNCHANGED exceptMap

\* The name of a declared column, looked up in the columns of its table
\* as the column pass does.
LookupColumn ==
    /\ map_pc = "loaded"
    /\ \E i \in DOMAIN map_doc.tables :
       \E j \in DOMAIN SectionColumns(map_doc.tables[i]) :
          LET column_mapping ==
                  build_logical_to_physical_column_mapping(map_doc)
          IN  /\ DictHas(column_mapping, map_doc.tables[i].name)
              /\ map_key' = Some([table |-> i, column |-> j])
              /\ map_ret' = ColumnLookupThree(
                                SectionColumns(map_doc.tables[i])[j].name,
                                DictGet(column_mapping,
                                        map_doc.tables[i].name))
    /\ map_pc' = "column"
    /\ UNCHANGED map_doc
    /\ UNCHANGED exceptMap

MapNext == LookupTable \/ LookupColumn

SpecMap == MapInit /\ [][MapNext]_vars

\* No two tables of the document have names that differ at most in letter
\* case.
DistinctNames(doc) ==
    \A i, j \in DOMAIN doc.tables :
        i # j => Upper(doc.tables[i].name) # Upper(doc.tables[j].name)

\* C7. Case-insensitivity: a declared table name n, n.lower() and
\* n.upper() all return the same physical FQN from the table mapping of
\* the document, and a declared column name likewise from the columns of
\* its table.
C7_CaseInsensitiveLookup ==
    (map_pc \in {"table", "column"} /\ DistinctNames(map_doc))
        => /\ map_ret.lower = map_ret.exact
           /\ map_ret.upper = map_ret.exact

(***************************************************************************)
(* SpecSetter: one SemanticModelSetter applying operations                 *)
(***************************************************************************)
SetterInit ==
    /\ set_pc = "idle"
    /\ set_data \in SetterDocuments
    /\ set_physical_to_logical_mapping = None
    /\ set_column_mapping = None
    /\ set_used = None
    /\ set_operations_applied = 0
    /\ InferIdle
    /\ CliIdle
    /\ SqlIdle
    /\ MapIdle
    /\ KeyIdle
    /\ ValIdle
    /\ PgIdle
    /\ ConIdle
    /\ UpsIdle
    /\ OutIdle

\* main(): an operation that raises ends the script with exit status 1.
Applied(result) ==
    /\ set_pc \in {"idle", "translated"}
    /\ set_operations_applied < MaxOperations
    /\ IF IsNone(result)
       THEN /\ set_pc' = "failed"
            /\ UNCHANGED <<set_data, set_operations_applied>>
       ELSE /\ set_pc' = "idle"
            /\ set_data' = Val(result)
            /\ set_operations_applied' = set_operations_applied + 1
    /\ UNCHANGED <<set_physical_to_logical_mapping, set_column_mapping,
                   set_used>>
    /\ UNCHANGED exceptSet

CreateTable == \E new \in NewTables : Applied(create_table(set_data, new))

CreateColumn ==
    \E table_name \in SetterTableNames, new \in NewColumns :
        Applied(create_column(set_data, table_name, new))

UpdateTable ==
    \E table_name \in SetterTableNames, u \in TableUpdates :
        Applied(update_table(set_data, table_name, u.property, u.value))

UpdateColumn ==
    \E table_name \in SetterTableNames, u \in ColumnUpdates :
        Applied(update_column(set_data, table_name, u.column_name,
                              u.property, u.value))

DeleteTable ==
    \E table_name \in SetterTableNames :
        Applied(delete_table(set_data, table_name))

DeleteColumn ==
    \E table_name \in SetterTableNames, column_name \in SetterColumnNames :
        Applied(delete_column(set_data, table_name, column_name))

\* _get_physical_to_logical_mapping and _get_column_mapping: build on the
\* first call, return the cached value afterwards.
get_physical_to_logical_mapping ==
    IF IsNone(set_physical_to_logical_mapping)
    THEN build_physical_to_logical_mapping(set_data)
    ELSE Val(set_physical_to_logical_mapping)

get_column_mapping ==
    IF IsNone(set_column_mapping)
    THEN build_physical_to_logical_column_mapping(set_data)
    ELSE Val(set_column_mapping)

\* _translate_vqr_sql as part of an operation on a verified query.
Translating(sql) ==
    /\ set_physical_to_logical_mapping'
           = Some(get_physical_to_logical_mapping)
    /\ set_column_mapping' = Some(get_column_mapping)
    /\ set_used' = Some([table_mapping |-> get_physical_to_logical_mapping,
                         column_mapping |-> get_column_mapping])
    /\ set_pc' = "translated"
    /\ set_operations_applied' = set_operations_applied + 1
    /\ UNCHANGED exceptSet

Failing ==
    /\ set_pc' = "failed"
    /\ UNCHANGED <<set_data, set_physical_to_logical_mapping,
                   set_column_mapping, set_used, set_operations_applied>>
    /\ UNCHANGED exceptSet

CreateVerifiedQuery ==
    /\ set_pc \in {"idle", "translated"}
    /\ set_operations_applied < MaxOperations
    /\ \E vqr_name \in VqrNames, sql \in VqrStatements :
          IF vqr_name = <<>> \/ find_vqr_by_name(set_data, vqr_name) # 0
          THEN Failing
          ELSE /\ Translating(sql)
               /\ set_data' = [set_data EXCEPT !.verified_queries =
                     Append(@, [name |-> vqr_name,
                                sql |-> TranslateVqrSqlWith(sql,
                                    get_physical_to_logical_mapping,
                                    get_column_mapping, NoRaise)])]

\* update_verified_query(None, vqr_id, "sql", value)
UpdateVerifiedQuery ==
    /\ set_pc \in {"idle", "translated"}
    /\ set_operations_applied < MaxOperations
    /\ \E vqr_id \in {0, 1}, sql \in VqrStatements :
          IF vqr_id >= Len(set_data.verified_queries)
          THEN Failing
          ELSE /\ Translating(sql)
               /\ set_data' = [set_data EXCEPT
                     !.verified_queries[vqr_id + 1].sql =
                         TranslateVqrSqlWith(sql,
                             get_physical_to_logical_mapping,
                             get_column_mapping, NoRaise)]

SetterNext ==
    \/ CreateTable
    \/ CreateColumn
    \/ UpdateTable
    \/ UpdateColumn
    \/ DeleteTable
    \/ DeleteColumn
    \/ CreateVerifiedQuery
    \/ UpdateVerifiedQuery

SpecSetter == SetterInit /\ [][SetterNext]_vars

\* C10. The mappings a verified query's SQL is translated with are the
\* ones the current document builds, whatever operations came before.
C10_MappingsFollowDocument ==
    set_pc = "translated" =>
        /\ Val(set_used).table_mapping
               = build_physical_to_logical_mapping(set_data)
        /\ Val(set_used).column_mapping
               = build_physical_to_logical_column_mapping(set_data)

(***************************************************************************)
(* SpecKeys: infer_primary_keys run once or twice on the same database     *)
(***************************************************************************)
KeysInit ==
    /\ key_pc = "idle"
    /\ key_db \in KeyDatabases
    /\ key_args \in [max_composite_cols : 2..MaxCompositeCols,
                     hint_columns : HintColumns]
    /\ key_threshold = 0
    /\ key_ret = None
    /\ key_prev = None
    /\ OthersIdle({"key"})

InferPrimaryKeys ==
    /\ key_pc \in {"idle", "ran"}
    /\ \E uniqueness_threshold \in Thresholds :
          /\ key_threshold' = uniqueness_threshold
          /\ key_ret' = Some(infer_primary_keys(key_db,
                                 key_args.max_composite_cols,
                                 key_args.hint_columns,
                                 uniqueness_threshold))
    /\ key_prev' = IF key_pc = "idle" THEN None
                   ELSE Some([threshold |-> key_threshold,
                              ret |-> Val(key_ret)])
    /\ key_pc' = IF key_pc = "idle" THEN "ran" ELSE "ran_twice"
    /\ UNCHANGED <<key_db, key_args>>
    /\ UNCHANGED exceptKey

KeysNext == InferPrimaryKeys

SpecKeys == KeysInit /\ [][KeysNext]_vars

\* C11. Monotonicity: on the same table, hints and query answers, a run
\* with a threshold at least as high returns a subset of the candidates,
\* and never more of them.
C11_ThresholdMonotone ==
    (key_pc = "ran_twice" /\ Val(key_prev).threshold <= key_threshold)
        => /\ Range(Val(key_ret).candidates)
                  \subseteq Range(Val(key_prev).ret.candidates)
           /\ Len(Val(key_ret).candidates)
                  <= Len(Val(key_prev).ret.candidates)

\* A second run with a higher threshold that kept some candidates of the
\* first and dropped others.
C11_Witness ==
    /\ key_pc = "ran_twice"
    /\ Val(key_prev).threshold < key_threshold
    /\ Val(key_ret).candidates # <<>>
    /\ Len(Val(key_ret).candidates) < Len(Val(key_prev).ret.candidates)

\* The cardinality queries of a run.
CardinalityQueries(ret) ==
    SelectSeq(ret.queries, LAMBDA q : q.kind = "cardinality")

\* C12. Without hints, a distinct-count query is sent only for columns
\* whose heuristic score, less the null-rate penalty, is at least 2.
C12_HeuristicPreFilter ==
    (key_pc # "idle" /\ key_args.hint_columns = <<>>)
        => \A i \in DOMAIN CardinalityQueries(Val(key_ret)) :
              \A j \in DOMAIN CardinalityQueries(Val(key_ret))[i].columns :
                  CardinalityQueries(Val(key_ret))[i].columns[j]
                      \in Range(filter_key_candidate_columns(
                                    key_db.columns_metadata,
                                    key_db.high_null))

QueryFails(db, columns) == \E i \in DOMAIN columns : columns[i] \in db.denied

\* C13. A failed cardinality query costs only its own candidate: the run
\* sends the queries it would send without the failure, reports no
\* candidate whose query failed, and reports the others as it would have.
C13_FailureIsolation ==
    key_pc # "idle" =>
        LET ret == Val(key_ret)
            clean == infer_primary_keys([key_db EXCEPT !.denied = {}],
                                        key_args.max_composite_cols,
                                        key_args.hint_columns, key_threshold)
        IN  /\ ret.queries = clean.queries
            /\ \A i \in DOMAIN ret.candidates :
                  ~QueryFails(key_db, ret.candidates[i].columns)
            /\ ret.candidates
                   = SelectSeq(clean.candidates,
                         LAMBDA c : ~QueryFails(key_db, c.columns))

\* C14. Empty table: row_count 0, no candidates, and neither a null-rate
\* nor a cardinality query.
C14_EmptyTable ==
    (key_pc # "idle" /\ key_db.row_count = 0)
        => /\ Val(key_ret).row_count = 0
           /\ Val(key_ret).candidates = <<>>
           /\ \A i \in DOMAIN Val(key_ret).queries :
                 Val(key_ret).queries[i].kind
                     \notin {"null_rate", "cardinality"}

\* A run with hints on an empty table that stopped after the row count.
C14_Witness ==
    /\ key_pc = "ran"
    /\ key_db.row_count = 0
    /\ Len(key_args.hint_columns) = 3
    /\ Len(Val(key_ret).queries) = 2
    /\ Val(key_ret).queries[2].kind = "row_count"

\* C15. Ranking: no candidate is listed twice, a candidate with strictly
\* higher distinct_count / row_count never comes after one with lower, and
\* among equals the one with fewer columns comes first.
C15_Ranking ==
    key_pc # "idle" =>
        LET cs == Val(key_ret).candidates
        IN  \A i, j \in DOMAIN cs :
                i < j =>
                    /\ cs[i].columns # cs[j].columns
                    /\ cs[i].distinct_count >= cs[j].distinct_count
                    /\ cs[i].distinct_count = cs[j].distinct_count
                           => Len(cs[i].columns) <= Len(cs[j].columns)

\* What the cardinality query on a column set returned.
ReturnedCount(db, columns) ==
    IF Len(columns) = 1 THEN get_column_cardinality(db, columns[1])
    ELSE get_composite_cardinality(db, columns)

\* C24. Qualification: a tested column set is among the candidates exactly
\* when row_count > 0 and the distinct count its query returned, divided by
\* row_count, is at least the threshold; every candidate is a tested set
\* and carries that count.
C24_Qualification ==
    key_pc # "idle" =>
        LET ret == Val(key_ret)
            tested == CardinalityQueries(ret)
            listed == {ret.candidates[i].columns : i \in DOMAIN ret.candidates}
        IN  /\ \A i \in DOMAIN tested :
                  tested[i].columns \in listed
                      <=> /\ key_db.row_count > 0
                          /\ ReturnedCount(key_db, tested[i].columns) * 10000
                                 >= key_threshold * key_db.row_count
            /\ \A i \in DOMAIN ret.candidates :
                  /\ \E j \in DOMAIN tested :
                        tested[j].columns = ret.candidates[i].columns
                  /\ ret.candidates[i].distinct_count
                         = ReturnedCount(key_db, ret.candidates[i].columns)

\* A run at threshold 1.0 that tested a column with every row distinct and
\* one with all but one, and listed the first only.
C24_Witness ==
    /\ key_pc = "ran"
    /\ key_threshold = 10000
    /\ key_args.hint_columns = <<>>
    /\ key_db.row_count = 100000
    /\ key_db.denied = {}
    /\ DictGet(key_db.distinct, <<"I", "D">>) = 100000
    /\ DictGet(key_db.distinct, <<"D", "S">>) = 99999
    /\ Len(Val(key_ret).candidates) = 1
    /\ Val(key_ret).candidates[1].columns = <<<<"I", "D">>>>

\* The hints that name a column of the table in some case, each as the
\* table spells it, in the order given.
ExistingHints ==
    LET columns == get_columns(key_db)
        found == SelectSeq(key_args.hint_columns,
                     LAMBDA h : \E i \in DOMAIN columns :
                                    Upper(columns[i]) = Upper(h))
    IN  [i \in DOMAIN found |->
            columns[CHOOSE j \in DOMAIN columns :
                        Upper(columns[j]) = Upper(found[i])]]

\* The column sets of the cardinality queries with one column, and with
\* more.
SinglesTested == {q.columns : q \in {r \in Range(CardinalityQueries(Val(key_ret))) : Len(r.columns) = 1}}
CompositesTested == {q.columns : q \in {r \in Range(CardinalityQueries(Val(key_ret))) : Len(r.columns) > 1}}

\* The elements of a sequence at a set of places, in order.
RECURSIVE PickPlaces(_, _)
PickPlaces(seq, places) ==
    IF places = {} THEN <<>>
    ELSE LET first == CHOOSE i \in places : \A j \in places : i <= j
         IN  <<seq[first]>> \o PickPlaces(seq, places \ {first})

ValInit ==
    /\ val_pc = "start"
    /\ val_in \in ValInputs
    /\ val_db \in ValDatabases
    /\ val_i = 1
    /\ val_executed = <<>>
    /\ val_ret = None
    /\ val_cursor = "none"
    /\ OthersIdle({"val"})

\* return ..., through the finally clause that closes the cursor.
Return(ret) ==
    /\ val_ret' = ret
    /\ val_pc' = "returned"
    /\ val_cursor' = "closed"

\* Lines 292-299: open the cursor and build both physical names; an
\* exception here reaches the outer except clause.
OpenCursor ==
    /\ val_pc = "start"
    /\ IF IsNone(get_physical_table_fqn(val_in.left_table))
          \/ IsNone(get_physical_table_fqn(val_in.right_table))
       THEN Return(Failure("validation_error", "none", <<>>))
       ELSE /\ val_pc' = "left_table"
            /\ val_cursor' = "open"
            /\ UNCHANGED val_ret
    /\ UNCHANGED <<val_in, val_db, val_i, val_executed>>
    /\ UNCHANGED exceptVal

\* Lines 305-312: DESC TABLE on the left table.
DescribeLeftTable ==
    /\ val_pc = "left_table"
    /\ LET left_fqn == Val(get_physical_table_fqn(val_in.left_table))
       IN  /\ val_executed' = Append(val_executed,
                  SubStep("table", "left", left_fqn, ~val_db.left_table))
           /\ IF val_db.left_table
              THEN Return(Failure("table_missing", "left", left_fqn))
              ELSE /\ val_pc' = "right_table"
                   /\ UNCHANGED <<val_ret, val_cursor>>
    /\ UNCHANGED <<val_in, val_db, val_i>>
    /\ UNCHANGED exceptVal

\* Lines 314-321: DESC TABLE on the right table.
DescribeRightTable ==
    /\ val_pc = "right_table"
    /\ LET right_fqn == Val(get_physical_table_fqn(val_in.right_table))
       IN  /\ val_executed' = Append(val_executed,
                  SubStep("table", "right", right_fqn, ~val_db.right_table))
           /\ IF val_db.right_table
              THEN Return(Failure("table_missing", "right", right_fqn))
              ELSE /\ val_pc' = "left_columns"
                   /\ UNCHANGED <<val_ret, val_cursor>>
    /\ UNCHANGED <<val_in, val_db, val_i>>
    /\ UNCHANGED exceptVal

\* One turn of a column loop: resolve the logical column, then SELECT it.
CheckColumn(side, table, columns, refused, after) ==
    LET logical_col == columns[val_i]
        physical_col == get_physical_column_name(table, logical_col)
    IN  IF IsNone(physical_col) \/ Val(physical_col) = <<>>
        THEN /\ val_executed' = Append(val_executed,
                    SubStep("resolve", side, logical_col, FALSE))
             /\ Return(Failure("column_unresolved", side, logical_col))
             /\ UNCHANGED val_i
        ELSE /\ val_executed' = val_executed
                    \o <<SubStep("resolve", side, logical_col, TRUE),
                         SubStep("select", side, Val(physical_col),
                                 Val(physical_col) \notin refused)>>
             /\ IF Val(physical_col) \in refused
                THEN /\ Return(Failure("column_missing", side,
                                       Val(physical_col)))
                     /\ UNCHANGED val_i
                ELSE /\ val_pc' = IF val_i = Len(columns) THEN after
                                  ELSE val_pc
                     /\ val_i' = IF val_i = Len(columns) THEN 1
                                 ELSE val_i + 1
                     /\ UNCHANGED <<val_ret, val_cursor>>

\* Lines 324-341.
CheckLeftColumn ==
    /\ val_pc = "left_columns"
    /\ CheckColumn("left", val_in.left_table, val_in.left_columns,
                   val_db.left_columns, "right_columns")
    /\ UNCHANGED <<val_in, val_db>>
    /\ UNCHANGED exceptVal

\* Lines 343-360.
CheckRightColumn ==
    /\ val_pc = "right_columns"
    /\ CheckColumn("right", val_in.right_table, val_in.right_columns,
                   val_db.right_columns, "join")
    /\ UNCHANGED <<val_in, val_db>>
    /\ UNCHANGED exceptVal

\* Lines 364-390: the test INNER JOIN.
TestJoin ==
    /\ val_pc = "join"
    /\ val_executed' = Append(val_executed,
           SubStep("join", "none", <<>>, ~val_db.join))
    /\ IF val_db.join
       THEN Return(Failure("join_failed", "none", <<>>))
       ELSE Return(Success)
    /\ UNCHANGED <<val_in, val_db, val_i>>
    /\ UNCHANGED exceptVal

ValNext ==
    \/ OpenCursor
    \/ DescribeLeftTable
    \/ DescribeRightTable
    \/ CheckLeftColumn
    \/ CheckRightColumn
    \/ TestJoin

SpecValidate == ValInit /\ [][ValNext]_vars

\* The sub-steps in the order they are due: both tables, each left column
\* (resolve, select), each right column, the join.
PlannedSubSteps ==
    <<[kind |-> "table", side |-> "left"],
      [kind |-> "table", side |-> "right"]>>
        \o Concat([i \in DOMAIN val_in.left_columns |->
                      <<[kind |-> "resolve", side |-> "left"],
                        [kind |-> "select", side |-> "left"]>>])
        \o Concat([i \in DOMAIN val_in.right_columns |->
                      <<[kind |-> "resolve", side |-> "right"],
                        [kind |-> "select", side |-> "right"]>>])
        \o <<[kind |-> "join", side |-> "none"]>>

\* A logical column resolves when an entry of the table carries its name
\* and a non-empty physical expression.
Resolves(table, logical_col) ==
    \E i \in DOMAIN SearchedColumns(table) :
        /\ Lower(SearchedColumns(table)[i].name) = Lower(logical_col)
        /\ SearchedColumns(table)[i].expr # Some(<<>>)

\* Whether a sub-step fails, by the tables and by what the database refuses.
SubStepFails(step) ==
    LET table == IF step.side = "left" THEN val_in.left_table
                 ELSE val_in.right_table
        refused == IF step.side = "left" THEN val_db.left_columns
                   ELSE val_db.right_columns
    IN  IF step.kind = "table"
        THEN IF step.side = "left" THEN val_db.left_table
             ELSE val_db.right_table
        ELSE IF step.kind = "resolve" THEN ~Resolves(table, step.subject)
        ELSE IF step.kind = "select" THEN step.subject \in refused
        ELSE val_db.join

\* The message kind that names a failed sub-step.
MessageNaming(kind) ==
    IF kind = "table" THEN "table_missing"
    ELSE IF kind = "resolve" THEN "column_unresolved"
    ELSE IF kind = "select" THEN "column_missing"
    ELSE "join_failed"

PgInit ==
    /\ pg_pc = "idle"
    /\ pg_entries \in PgEntryLists
    /\ pg_file = None
    /\ pg_loaded = None
    /\ OthersIdle({"pg"})

SavePgpass ==
    /\ pg_pc \in {"idle", "loaded_empty"}
    /\ pg_pc' = "saved"
    /\ pg_file' = Some(save_pgpass(pg_entries))
    /\ UNCHANGED <<pg_entries, pg_loaded>>
    /\ UNCHANGED exceptPg

\* Without a file load_pgpass returns no entries.
LoadPgpass ==
    /\ pg_pc \in {"idle", "saved"}
    /\ pg_pc' = IF pg_pc = "idle" THEN "loaded_empty" ELSE "loaded"
    /\ pg_loaded' = Some(IF IsNone(pg_file) THEN <<>>
                         ELSE load_pgpass(Val(pg_file)))
    /\ UNCHANGED <<pg_entries, pg_file>>
    /\ UNCHANGED exceptPg

PgNext == SavePgpass \/ LoadPgpass

SpecPgpass == PgInit /\ [][PgNext]_vars

\* A string without its newline and carriage-return characters.
WithoutNewlines(str) ==
    SelectSeq(str, LAMBDA ch : ch \notin {Newline, CarriageReturn})

\* C20. Round trip: load_pgpass after save_pgpass returns as many entries,
\* each with the host, database and user it was saved with, colons and
\* backslashes included, and with its password less the newline and
\* carriage-return characters.
C20_PgpassRoundTrip ==
    pg_pc = "loaded" =>
        /\ Len(Val(pg_loaded)) = Len(pg_entries)
        /\ \A i \in DOMAIN pg_entries :
              i \in DOMAIN Val(pg_loaded) =>
                  /\ Val(pg_loaded)[i].host = pg_entries[i].host
                  /\ Val(pg_loaded)[i].database = pg_entries[i].database
                  /\ Val(pg_loaded)[i].user = pg_entries[i].user
                  /\ Val(pg_loaded)[i].password
                         = WithoutNewlines(pg_entries[i].password)


(***************************************************************************)
(* SpecConn: the connection of one call of infer_primary_keys              *)
(***************************************************************************)
\* full_table_name.split("."): the parts when there are three of them, None
\* where the code raises ValueError.
parse_table_name(full_table_name) ==
    LET parts == SplitDots(full_table_name)
    IN  IF Len(parts) # 3 THEN None ELSE Some(parts)

\* D.S.T, D..T, S.T, T, D.S.T.X and the empty name.
ConTableNames ==
    {<<"D", Dot, "S", Dot, "T">>, <<"D", Dot, Dot, "T">>,
     <<"S", Dot, "T">>, <<"T">>,
     <<"D", Dot, "S", Dot, "T", Dot, "X">>, <<>>}

\* Row counts the COUNT(*) query answers.
ConRowCounts == {0, 4}

ConInit ==
    /\ con_pc = "get_connection"
    /\ con_in \in {Some(in) : in \in
                     [table_name : ConTableNames,
                      connection_name : {None, Some("myconnection")},
                      connect_fails : BOOLEAN,
                      describe_fails : BOOLEAN,
                      count_fails : BOOLEAN,
                      row_count : ConRowCounts]}
    /\ con_conn = "none"
    /\ con_ret = "none"
    /\ OthersIdle({"con"})

\* The call ends: by return or by an exception leaving the function.
ConLeave(how) ==
    /\ con_pc' = "done"
    /\ con_ret' = how

\* Line 384 and get_connection(): ValueError without
\* SNOWFLAKE_CONNECTION_NAME, Exception when connect() fails.
GetConnection ==
    /\ con_pc = "get_connection"
    /\ IF IsNone(Val(con_in).connection_name) \/ Val(con_in).connect_fails
       THEN ConLeave("raised") /\ UNCHANGED con_conn
       ELSE con_conn' = "open" /\ con_pc' = "parse_table_name"
                               /\ UNCHANGED con_ret
    /\ UNCHANGED con_in
    /\ UNCHANGED exceptCon

\* Line 385, before the try statement.
ParseTableName ==
    /\ con_pc = "parse_table_name"
    /\ IF IsNone(parse_table_name(Val(con_in).table_name))
       THEN ConLeave("raised")
       ELSE con_pc' = "get_columns" /\ UNCHANGED con_ret
    /\ UNCHANGED <<con_in, con_conn>>
    /\ UNCHANGED exceptCon

\* Line 388, inside try ... finally: conn.close().
GetColumns ==
    /\ con_pc = "get_columns"
    /\ IF Val(con_in).describe_fails
       THEN ConLeave("raised") /\ con_conn' = "closed"
       ELSE con_pc' = "get_row_count" /\ UNCHANGED <<con_ret, con_conn>>
    /\ UNCHANGED con_in
    /\ UNCHANGED exceptCon

\* Lines 391-407: the row count, and the early return for an empty table.
GetRowCount ==
    /\ con_pc = "get_row_count"
    /\ IF Val(con_in).count_fails
       THEN ConLeave("raised") /\ con_conn' = "closed"
       ELSE IF table_is_empty(Val(con_in).row_count)
       THEN ConLeave("returned") /\ con_conn' = "closed"
       ELSE con_pc' = "analyse" /\ UNCHANGED <<con_ret, con_conn>>
    /\ UNCHANGED con_in
    /\ UNCHANGED exceptCon

\* Lines 409-512: the cardinality queries answer 0 when they fail, so the
\* analysis reaches its return; finally: conn.close().
AnalyseAndReturn ==
    /\ con_pc = "analyse"
    /\ ConLeave("returned")
    /\ con_conn' = "closed"
    /\ UNCHANGED con_in
    /\ UNCHANGED exceptCon

ConNext ==
    \/ GetConnection
    \/ ParseTableName
    \/ GetColumns
    \/ GetRowCount
    \/ AnalyseAndReturn

SpecConn == ConInit /\ [][ConNext]_vars

\* C29. Whenever infer_primary_keys has returned or raised, the connection
\* it opened is closed: after a normal return, the early return for an
\* empty table, a failed column-list or row-count query, and a table name
\* that is not database.schema.table.
C29_ConnectionClosedOnExit ==
    con_pc = "done" => con_conn # "open"


(***************************************************************************)
(* SpecUpsert: upsert_pgpass_entry and delete_pgpass_entry on one ~/.pgpass *)
(***************************************************************************)
\* Bound: operations applied to the file.
MaxPgOperations == 2

\* load_pgpass() of a file that may not exist.
LoadFile(file) == IF IsNone(file) THEN <<>> ELSE load_pgpass(Val(file))

\* The condition of lines 736-741 and 764-769.
SameKey(entry, host, port, database, user) ==
    /\ entry.host = host
    /\ entry.port = port
    /\ entry.database = database
    /\ entry.user = user

\* The file after upsert_pgpass_entry: the password of the first entry of
\* that key is replaced, or a new entry is appended; then save_pgpass.
upsert_pgpass_entry(file, host, port, database, user, password) ==
    LET entries == LoadFile(file)
        found == {i \in DOMAIN entries :
                     SameKey(entries[i], host, port, database, user)}
    IN  IF found # {}
        THEN LET first == CHOOSE i \in found : \A j \in found : i <= j
             IN  Some(save_pgpass([entries EXCEPT ![first].password = password]))
        ELSE Some(save_pgpass(Append(entries,
                      PgpassEntry(host, port, database, user, password))))

\* The file after delete_pgpass_entry: written again only when an entry
\* was removed.
delete_pgpass_entry(file, host, port, database, user) ==
    LET entries == LoadFile(file)
        kept == SelectSeq(entries,
                    LAMBDA e : ~SameKey(e, host, port, database, user))
    IN  IF Len(kept) < Len(entries) THEN Some(save_pgpass(kept)) ELSE file

\* Keys differ by their host: t and o are upserted and deleted, x is only
\* in the file at the start.
UpsHosts == {<<"t">>, <<"o">>}

\* Passwords: two plain ones and one with a backslash.
UpsPasswords == {<<"s">>, <<"n">>, <<"p", Backslash, "w">>}

\* The files at the start: none, the bare header, or one entry written by
\* save_pgpass for host t or for host x.
UpsInitialFiles ==
    {None, Some(save_pgpass(<<>>))}
        \cup {Some(save_pgpass(<<PgpassEntry(host, <<"5">>, <<"d">>, <<"u">>,
                                             password)>>)) :
                 host \in {<<"t">>, <<"x">>}, password \in UpsPasswords}

UpsertInit ==
    /\ ups_pc = "ready"
    /\ ups_file \in UpsInitialFiles
    /\ ups_initial = LoadFile(ups_file)
    /\ ups_latest = <<>>
    /\ ups_n = 0
    /\ OthersIdle({"ups"})

UpsertPgpassEntry ==
    /\ ups_pc = "ready"
    /\ ups_n < MaxPgOperations
    /\ \E host \in UpsHosts, password \in UpsPasswords :
          /\ ups_file' = upsert_pgpass_entry(ups_file, host, <<"5">>, <<"d">>,
                                             <<"u">>, password)
          /\ ups_latest' = DictPut(ups_latest, host, Some(password))
    /\ ups_n' = ups_n + 1
    /\ UNCHANGED <<ups_pc, ups_initial>>
    /\ UNCHANGED exceptUps

DeletePgpassEntry ==
    /\ ups_pc = "ready"
    /\ ups_n < MaxPgOperations
    /\ \E host \in UpsHosts :
          /\ ups_file' = delete_pgpass_entry(ups_file, host, <<"5">>, <<"d">>,
                                             <<"u">>)
          /\ ups_latest' = DictPut(ups_latest, host, None)
    /\ ups_n' = ups_n + 1
    /\ UNCHANGED <<ups_pc, ups_initial>>
    /\ UNCHANGED exceptUps

UpsertNext == UpsertPgpassEntry \/ DeletePgpassEntry

SpecUpsert == UpsertInit /\ [][UpsertNext]_vars

\* The entries of a list whose host is the given one.
EntriesOfHost(entries, host) == SelectSeq(entries, LAMBDA e : e.host = host)

\* C21. After any sequence of upserts and deletes the file holds, for
\* each key whose last operation was an upsert, exactly one entry and it
\* carries the password of that upsert; and the entries of keys that were
\* neither upserted nor deleted are those of the file at the start.
C21_UpsertKeepsOneEntryPerKey ==
    LET loaded == LoadFile(ups_file)
    IN  /\ \A i \in DOMAIN ups_latest :
              ~IsNone(ups_latest[i].v) =>
                  LET found == EntriesOfHost(loaded, ups_latest[i].k)
                  IN  /\ Len(found) = 1
                      /\ found[1].password = Val(ups_latest[i].v)
        /\ \A host \in {ups_initial[i].host : i \in DOMAIN ups_initial} :
              ~DictHas(ups_latest, host) =>
                  EntriesOfHost(loaded, host) = EntriesOfHost(ups_initial, host)


(***************************************************************************)
(* SpecOutput: pg_connect main() with --from-response or                   *)
(* --from-reset-response, run twice on the same command line, environment  *)
(* and response file but for the passwords in the file                     *)
(*                                                                         *)
(* A text is a sequence whose elements are single characters (host and     *)
(* passwords) or whole literals of the source (one element for each        *)
(* fixed piece of a message).                                              *)
(***************************************************************************)
\* str.replace(old, new), old not empty: occurrences from the left, not
\* overlapping.
RECURSIVE Replace(_, _, _)
Replace(str, old, new) ==
    IF Len(str) < Len(old) THEN str
    ELSE IF SubSeq(str, 1, Len(old)) = old
    THEN new \o Replace(SubSeq(str, Len(old) + 1, Len(str)), old, new)
    ELSE <<Head(str)>> \o Replace(Tail(str), old, new)

Redacted == <<"[REDACTED]">>

OutHost == <<"h", Dot, "c">>
OutConnectionName == <<"conn">>

\* What a parser or a call hands back: a value, or the exception raised.
Returned(value) == [raised |-> "", message |-> <<>>, value |-> value]
Raises(kind, message) == [raised |-> kind, message |-> message, value |-> <<>>]

Role(name, password) == [name |-> name, password |-> password]

\* The roles of the response with a name and a password.
RolesWithPasswords(access_roles) ==
    SelectSeq(access_roles, LAMBDA role : role.name # "" /\ role.password # <<>>)

\* The password of the last role named snowflake_admin, <<>> without one.
AdminPassword(roles) ==
    LET admins == SelectSeq(roles, LAMBDA role : role.name = "snowflake_admin")
    IN  IF admins = <<>> THEN <<>> ELSE admins[Len(admins)].password

\* file = [kind, access_roles]: the response file; kind is "missing",
\* "malformed", "no_host" or "instance".
parse_create_response(file) ==
    IF file.kind = "missing"
    THEN Raises("FileNotFoundError", <<"response file not found">>)
    ELSE IF file.kind = "malformed"
    THEN Raises("JSONDecodeError", <<"expecting value">>)
    ELSE IF file.kind = "no_host"
    THEN Raises("ValueError", <<"no 'host' field found in response">>)
    ELSE LET roles_with_passwords == RolesWithPasswords(file.access_roles)
             admin_password == AdminPassword(roles_with_passwords)
         IN  IF admin_password = <<>>
             THEN Raises("ValueError",
                         <<"no snowflake_admin password found in access_roles">>)
             ELSE Returned(<<Item("host", OutHost),
                             Item("port", <<"5432">>),
                             Item("database", <<"postgres">>),
                             Item("user", <<"snowflake_admin">>),
                             Item("password", admin_password),
                             Item("sslmode", <<"require">>),
                             Item("access_roles", roles_with_passwords)>>)

\* _extract_password on {"password": ...} or {"access_roles": [...]}.
parse_reset_response(file) ==
    IF file.kind = "missing"
    THEN Raises("FileNotFoundError", <<"reset response file not found">>)
    ELSE IF file.kind = "malformed"
    THEN Raises("JSONDecodeError", <<"expecting value">>)
    ELSE LET with_password == SelectSeq(file.access_roles,
                                  LAMBDA role : role.password # <<>>)
         IN  IF file.kind = "no_host" \/ with_password = <<>>
             THEN Raises("ValueError",
                         <<"no password field found in reset response">>)
             ELSE Returned(with_password[1].password)

sanitize_error(error_msg, params) ==
    LET password == DictGet(params, "password")
        user == DictGet(params, "user")
        msg == IF password # <<>> THEN Replace(error_msg, password, Redacted)
               ELSE error_msg
    IN  IF user # <<>>
        THEN Replace(msg, <<"user=">> \o user, <<"user=">> \o Redacted)
        ELSE msg

categorize_connection_error(error, params) ==
    LET error_str == Lower(error)
    IN  IF ContainsAny(error_str, {<<"connection refused">>,
                                   <<"could not connect">>})
        THEN <<"connection refused. possible causes">>
        ELSE IF ContainsAny(error_str, {<<"timeout">>, <<"timed out">>})
        THEN <<"connection timed out. possible causes">>
        ELSE IF ContainsAny(error_str, {<<"authentication failed">>,
                                        <<"password">>})
        THEN <<"authentication failed. possible causes">>
        ELSE IF Contains(error_str, <<"ssl">>)
        THEN <<"ssl error">>
        ELSE IF Contains(error_str, <<"does not exist">>)
        THEN <<"database '">> \o DictGet(params, "database") \o <<"' not found">>
        ELSE <<"connection failed: ">> \o sanitize_error(error, params)

\* What psycopg2.connect does with the parameters: it connects, or raises
\* psycopg2.Error with a text that may quote the host or the password
\* given, or another exception.
DriverOutcomes == {"ok", "refused", "unknown_host", "quotes_password",
                   "no_password_supplied", "unexpected"}

DriverText(driver, params) ==
    IF driver = "refused" THEN <<"connection refused">>
    ELSE IF driver = "unknown_host"
    THEN <<"could not translate host name ">> \o DictGet(params, "host")
    ELSE IF driver = "quotes_password"
    THEN <<"invalid dsn: ">> \o DictGet(params, "password")
    ELSE IF driver = "no_password_supplied"
    THEN <<"fe_sendauth: no ", "password", " supplied">>
    ELSE <<"boom">>

\* (success, message)
validate_connection(params, driver) ==
    IF driver = "ok"
    THEN [success |-> TRUE, message |-> <<"connection successful">>]
    ELSE IF driver = "unexpected"
    THEN [success |-> FALSE,
          message |-> <<"unexpected error: ">>
                          \o sanitize_error(DriverText(driver, params), params)]
    ELSE [success |-> FALSE,
          message |-> categorize_connection_error(DriverText(driver, params),
                                                  params)]

\* The dictionary main() shows: the parameters less the secret keys, and
\* has_password.
DisplayParams(params) ==
    SelectSeq(params, LAMBDA item : item.k \notin {"password", "access_roles"})
        \o <<Item("has_password",
                  IF DictGet(params, "password") # <<>> THEN <<"True">>
                  ELSE <<"False">>)>>

Output(success, message, data) ==
    [success |-> success, message |-> message, data |-> data]

NoData == [kind |-> "none", items |-> <<>>]
ListData(names) == [kind |-> "list", items |-> names]
DictData(items) == [kind |-> "dict", items |-> items]

\* list_connections(): the sections of the service file.
ListedConnections(env) ==
    IF env.service_exists THEN <<OutConnectionName>> ELSE <<>>

\* The try statement of main() (lines 974-1125) for a run that passed the
\* response parser; args has neither --create, --reset nor --delete.
HandleCommand(args, env, parsed) ==
    IF args.mode = "from_reset_response"
    THEN \* update_password: upsert_pgpass_entry for the saved connection
         IF ~env.service_exists
         THEN Output(FALSE, <<"connection '">> \o OutConnectionName
                                \o <<"' not found in ~/.pg_service.conf">>,
                     NoData)
         ELSE IF env.write_fails
         THEN Output(FALSE, <<"error: ", "PermissionError", ": ",
                               "permission denied: ~/.pgpass">>, NoData)
         ELSE Output(TRUE, <<"password for '">> \o OutConnectionName
                               \o <<"' updated in ~/.pgpass">>, NoData)
    ELSE IF args.list
    THEN Output(TRUE, <<"found saved connections in ~/.pg_service.conf">>,
                ListData(ListedConnections(env)))
    ELSE LET params == parsed.value
             tested == IF args.test THEN validate_connection(params, env.driver)
                       ELSE [success |-> TRUE, message |-> <<>>]
         IN  IF args.save /\ tested.success /\ env.write_fails
             THEN Output(FALSE, <<"error: ", "PermissionError", ": ",
                                  "permission denied: ~/.pg_service.conf">>,
                         NoData)
             ELSE IF args.save /\ tested.success
             THEN Output(TRUE,
                         <<"connection '">> \o OutConnectionName
                             \o (IF env.service_exists THEN <<"' updated">>
                                 ELSE <<"' saved">>),
                         DictData(DisplayParams(params)))
             ELSE IF tested.success
             THEN Output(TRUE, tested.message, DictData(DisplayParams(params)))
             ELSE Output(FALSE, tested.message, NoData)

\* Lines 1127-1144: json.dumps(output) or the text form.
Printed(args, output) ==
    LET data == output.data
        Line(item) == <<"  ", item.k, ": ">> \o item.v \o <<Newline>>
    IN  IF args.json
        THEN <<"{success: ", IF output.success THEN "true" ELSE "false",
               ", message: ">> \o output.message \o <<", data: ">>
                 \o (IF data.kind = "none" THEN <<"null">>
                     ELSE IF data.kind = "list"
                     THEN Concat([i \in DOMAIN data.items |->
                                     data.items[i] \o <<", ">>])
                     ELSE Concat([i \in DOMAIN data.items |->
                                     <<data.items[i].k, ": ">>
                                         \o data.items[i].v \o <<", ">>]))
                 \o <<"}">>
        ELSE (IF output.message # <<>>
              THEN <<IF output.success THEN "ok " ELSE "failed ">>
                       \o output.message \o <<Newline>>
              ELSE <<>>)
             \o (IF data.kind = "list"
                 THEN Concat([i \in DOMAIN data.items |->
                                 <<"  - ">> \o data.items[i] \o <<Newline>>])
                 ELSE IF data.kind = "dict"
                 THEN Concat([i \in DOMAIN data.items |->
                         IF data.items[i].k \in {"password", "access_roles"}
                         THEN <<>> ELSE Line(data.items[i])])
                 ELSE <<>>)

\* One run of main(): what it printed, the keys of output["data"], and
\* its exit status.
main(args, env, file) ==
    LET parsed == IF args.mode = "from_response"
                  THEN parse_create_response(file)
                  ELSE parse_reset_response(file)
    IN  IF parsed.raised = "FileNotFoundError"
        THEN [printed |-> <<"failed ">> \o parsed.message \o <<Newline>>,
              data_keys |-> {}, exit |-> 1]
        ELSE IF parsed.raised # ""
        THEN [printed |-> <<"failed ", "failed to parse response file: ">>
                              \o parsed.message \o <<Newline>>,
              data_keys |-> {}, exit |-> 1]
        ELSE LET output == HandleCommand(args, env, parsed)
             IN  [printed |-> Printed(args, output),
                  data_keys |-> IF output.data.kind = "dict"
                                THEN DictKeys(output.data.items) ELSE {},
                  exit |-> IF output.success THEN 0 ELSE 1]

\* Passwords of a response file: none of them empty.
OutPasswords == {<<"s">>, <<"c">>, <<"z", "9">>}

OutArgs ==
    [mode : {"from_response", "from_reset_response"}, json : BOOLEAN,
     test : BOOLEAN, save : BOOLEAN, list : BOOLEAN]

OutEnvironments ==
    [service_exists : BOOLEAN, write_fails : BOOLEAN, driver : DriverOutcomes]

OutFileKinds == {"missing", "malformed", "no_host", "instance"}

\* The response file of a run: the shared part with the run's passwords.
ResponseFile(kind, pw) ==
    [kind |-> kind,
     access_roles |-> <<Role("application", pw.application),
                        Role("snowflake_admin", pw.admin)>>]

OutputInit ==
    /\ out_pc = "start"
    /\ out_in \in {Some(in) : in \in [args : OutArgs, env : OutEnvironments,
                                      file : OutFileKinds]}
    /\ out_pw \in {Some(<<first, second>>) :
                      first \in [admin : OutPasswords, application : {<<"a">>}],
                      second \in [admin : OutPasswords,
                                  application : {<<"a">>, <<"b">>}]}
    /\ out_printed = None
    /\ out_data = None
    /\ out_exit = None
    /\ OthersIdle({"out"})

\* Both runs, each on its own response file.
Main ==
    /\ out_pc = "start"
    /\ out_pc' = "exited"
    /\ LET in == Val(out_in)
           run == [r \in 1..2 |->
                      main(in.args, in.env,
                           ResponseFile(in.file, Val(out_pw)[r]))]
       IN  /\ out_printed' = Some([r \in 1..2 |-> run[r].printed])
           /\ out_data' = Some([r \in 1..2 |-> run[r].data_keys])
           /\ out_exit' = Some([r \in 1..2 |-> run[r].exit])
    /\ UNCHANGED <<out_in, out_pw>>
    /\ UNCHANGED exceptOut

OutputNext == Main

SpecOutput == OutputInit /\ [][OutputNext]_vars

\* The password strings of a run's response file.
Secrets(pw) == {pw.admin, pw.application}

\* C22. Two runs that differ only in the passwords of the response file
\* print the same output and end with the same status; no password
\* appears in the output of its run unless the same text is printed
\* whatever the passwords; and output["data"] has neither a password nor an
\* access_roles key.
C22_OutputIndependentOfPasswords ==
    out_pc = "exited" =>
        /\ Val(out_printed)[1] = Val(out_printed)[2]
        /\ Val(out_exit)[1] = Val(out_exit)[2]
        /\ \A r \in 1..2 :
              /\ Val(out_data)[r] \cap {"password", "access_roles"} = {}
              /\ \A secret \in Secrets(Val(out_pw)[r]) :
                    Contains(Val(out_printed)[r], secret)
                        => Contains(Val(out_printed)[3 - r], secret)

=============================================================================
